---- MODULE Spec2Model ----
(***************************************************************************)
(* Guided learning agent of app/agents/core_agent.py: the LangGraph        *)
(* workflow (nodes, routing functions, edges), the turn runner run_agent   *)
(* and the regex fast-path classifiers.                                    *)
(*                                                                         *)
(* Text is modelled as a sequence of tokens.  A token is a word or a       *)
(* punctuation mark of the lower-cased, stripped text; the empty string is *)
(* the empty sequence, so Python truthiness of a string s is s # <<>>, and *)
(* string concatenation and f-strings are \o.                              *)
(***************************************************************************)
EXTENDS Integers, Sequences, FiniteSets, TLC

(***************************************************************************)
(* Bounds of the model.                                                    *)
(***************************************************************************)
MaxTurns == 3          \* run_agent calls explored per session
MaxModelSteps == 6     \* most steps the planner model returns in one call
MaxRequests == 2       \* requests the transport serves concurrently
MaxTextLen == 5        \* longest speech text drawn for the text functions
MaxLessonTurns == 5    \* run_agent calls followed after a lesson has started

(***************************************************************************)
(* Program constants.                                                      *)
(***************************************************************************)
MAX_STEPS == 5
MIN_STEPS == 3
SMALL_TALK_MAX_WORDS == 10
REPEAT_MAX_WORDS == 15

(***************************************************************************)
(* Text helpers.                                                           *)
(***************************************************************************)
Punct == {"!", ".", ",", "?"}

\* len(text.split()): punctuation attaches to the word before it
WordCount(s) == Cardinality({i \in 1..Len(s) : s[i] \notin Punct})

\* re.search(r"^p", s)
StartsWith(s, p) == Len(p) <= Len(s) /\ SubSeq(s, 1, Len(p)) = p

\* re.search(r"p", s), p unanchored
Contains(s, p) ==
    \E i \in 1..Len(s) : i + Len(p) - 1 <= Len(s) /\ SubSeq(s, i, i + Len(p) - 1) = p

\* re.search(r"^p$", s)
IsExactly(s, p) == s = p

\* re.search(r"^p[\s!.]*$", s)
StartsThenOnlyEndMarks(s, p) ==
    StartsWith(s, p) /\ \A i \in (Len(p) + 1)..Len(s) : s[i] \in {"!", "."}

(***************************************************************************)
(* Pattern tables.  Each regex is expanded to the finite set of token      *)
(* sequences it accepts (optional apostrophes and optional letters give    *)
(* the spellings listed).                                                  *)
(***************************************************************************)
SMALL_TALK_PREFIXES ==
    { <<"hi">>, <<"hello">>, <<"hey">>, <<"howdy">>, <<"sup">>, <<"yo">>,
      <<"good", "morning">>, <<"good", "afternoon">>, <<"good", "evening">>,
      <<"good", "night">>, <<"morning">>, <<"afternoon">>, <<"evening">>, <<"night">>,
      <<"bye">>, <<"goodbye">>, <<"see", "you">>, <<"later">>, <<"take", "care">>,
      <<"thanks">>, <<"thank", "you">>,
      <<"i'm", "bored">>, <<"i'm", "tired">>, <<"i'm", "happy">>, <<"i'm", "sad">>,
      <<"i'm", "excited">>, <<"i'm", "good">>, <<"i'm", "fine">>, <<"i'm", "great">>,
      <<"i'm", "ok">>, <<"i'm", "okay">>,
      <<"im", "bored">>, <<"im", "tired">>, <<"im", "happy">>, <<"im", "sad">>,
      <<"im", "excited">>, <<"im", "good">>, <<"im", "fine">>, <<"im", "great">>,
      <<"im", "ok">>, <<"im", "okay">>,
      <<"haha">>, <<"lol">>, <<"lmao">>,
      <<"who", "are", "you">>,
      <<"what's", "your", "name">>, <<"whats", "your", "name">>,
      <<"what", "is", "your", "name">>,
      <<"you're", "funny">>, <<"you're", "cool">>, <<"you're", "nice">>,
      <<"you're", "great">>, <<"you're", "awesome">>,
      <<"youre", "funny">>, <<"youre", "cool">>, <<"youre", "nice">>,
      <<"youre", "great">>, <<"youre", "awesome">>,
      <<"your", "funny">>, <<"your", "cool">>, <<"your", "nice">>,
      <<"your", "great">>, <<"your", "awesome">>,
      <<"you'r", "funny">>, <<"you'r", "cool">>, <<"you'r", "nice">>,
      <<"you'r", "great">>, <<"you'r", "awesome">> }

SMALL_TALK_ANYWHERE ==
    { <<"how", "are", "you">>,
      <<"how's", "it", "going">>, <<"hows", "it", "going">>, <<"how", "it", "going">>,
      <<"how'", "it", "going">>,
      <<"what's", "up">>, <<"whats", "up">>, <<"what", "up">>, <<"what'", "up">>,
      <<"tell", "me", "a", "joke">> }

SMALL_TALK_WHOLE ==
    { <<"nice">>, <<"cool">>, <<"awesome">>, <<"great">>, <<"wow">> }

REPEAT_VERBS_NEG ==
    { <<"couldn't">>, <<"couldnt">>, <<"can't">>, <<"cant">>, <<"could", "not">>,
      <<"did", "not">>, <<"didn't">>, <<"didnt">> }

REPEAT_ANYWHERE ==
    { v \o <<w>> : v \in REPEAT_VERBS_NEG, w \in {"hear", "understand", "catch", "get"} }
    \cup
    { <<"repeat">>, <<"say", "that", "again">>, <<"say", "it", "again">>,
      <<"say", "this", "again">>,
      <<"come", "again">>, <<"pardon">>, <<"once", "more">>, <<"one", "more", "time">>,
      <<"what", "did", "you", "say">>, <<"what", "did", "you", "ask">>,
      <<"what", "was", "you", "say">>, <<"what", "was", "you", "ask">>,
      <<"tell", "that", "again">>, <<"tell", "it", "again">>, <<"tell", "me", "again">>,
      <<"ask", "that", "again">>, <<"ask", "it", "again">>, <<"ask", "me", "again">>,
      <<"say", "me", "again">>,
      <<"again", "please">>, <<"please", "again">>, <<"please", "repeat">>,
      <<"can", "you", "repeat">>, <<"could", "you", "repeat">>,
      <<"can", "you", "say", "that", "again">>, <<"can", "you", "say", "it", "again">>,
      <<"could", "you", "say", "that", "again">>, <<"could", "you", "say", "it", "again">>,
      <<"i", "missed", "that">>, <<"i", "missed", "it">>,
      <<"i", "missed", "what", "you", "said">>,
      <<"what", "question">>, <<"what", "did", "you", "ask">>,
      <<"speak", "louder">>, <<"speak", "up">>, <<"talk", "louder">>, <<"talk", "up">> }

REPEAT_WHOLE == { <<"again">> }

YES_WHOLE ==
    { <<"yes">>, <<"yeah">>, <<"yep">>, <<"yup">>, <<"sure">>, <<"ok">>, <<"okay">>,
      <<"absolutely">>, <<"definitely">>, <<"please">>, <<"go", "ahead">>,
      <<"let's", "do", "it">>, <<"lets", "do", "it">>, <<"let", "do", "it">>,
      <<"let'", "do", "it">>,
      <<"let's", "go">>, <<"lets", "go">>, <<"let", "go">>, <<"let'", "go">>,
      <<"sounds", "good">>, <<"sound", "good">>, <<"why", "not">>, <<"of", "course">>,
      <<"i'd", "like", "that">>, <<"i'd", "like", "to">>, <<"i'd", "love", "that">>,
      <<"i'd", "love", "to">>,
      <<"id", "like", "that">>, <<"id", "like", "to">>, <<"id", "love", "that">>,
      <<"id", "love", "to">>,
      <<"i", "like", "that">>, <<"i", "like", "to">>, <<"i", "love", "that">>,
      <<"i", "love", "to">>,
      <<"i'", "like", "that">>, <<"i'", "like", "to">>, <<"i'", "love", "that">>,
      <<"i'", "love", "to">> }

YES_PREFIXES ==
    { <<"break", "it", "down">>, <<"explain", "it">>, <<"explain", "in", "detail">>,
      <<"teach", "me">>, <<"tell", "me", "more">>, <<"go", "ahead">>,
      <<"i", "want", "to", "learn">> }

NO_WHOLE ==
    { <<"no">>, <<"nah">>, <<"nope">>,
      <<"not", "really">>, <<"not", "now">>, <<"not", "thanks">>,
      <<"no", "really">>, <<"no", "now">>, <<"no", "thanks">>,
      <<"i'm", "good">>, <<"im", "good">>, <<"i", "good">>, <<"i'", "good">>,
      <<"skip">>, <<"never", "mind">>, <<"nevermind">>,
      <<"that's", "enough">>, <<"that's", "fine">>, <<"that's", "okay">>, <<"that's", "ok">>,
      <<"thats", "enough">>, <<"thats", "fine">>, <<"thats", "okay">>, <<"thats", "ok">>,
      <<"that", "enough">>, <<"that", "fine">>, <<"that", "okay">>, <<"that", "ok">>,
      <<"that'", "enough">>, <<"that'", "fine">>, <<"that'", "okay">>, <<"that'", "ok">>,
      <<"i", "don't", "want">>, <<"i", "don't", "need">>,
      <<"i", "dont", "want">>, <<"i", "dont", "need">>,
      <<"no", "thank">>,
      <<"that's", "all">>, <<"thats", "all">>, <<"that", "all">>, <<"that'", "all">> }

(***************************************************************************)
(* query.strip().lower(): raw text may carry capitals and surrounding      *)
(* blanks (the token " ").                                                 *)
(***************************************************************************)
LowerToken(t) ==
    CASE t = "Yes" -> "yes"
      [] t = "No" -> "no"
      [] t = "Hello" -> "hello"
      [] t = "Sure" -> "sure"
      [] OTHER -> t

RECURSIVE StripLeft(_)
StripLeft(s) == IF s # <<>> /\ Head(s) = " " THEN StripLeft(Tail(s)) ELSE s

RECURSIVE StripRight(_)
StripRight(s) ==
    IF s # <<>> /\ s[Len(s)] = " " THEN StripRight(SubSeq(s, 1, Len(s) - 1)) ELSE s

Normalize(raw) ==
    LET t == StripRight(StripLeft(raw)) IN [i \in 1..Len(t) |-> LowerToken(t[i])]

(***************************************************************************)
(* Fast-path classifiers, each applied to the raw text.                    *)
(***************************************************************************)
is_small_talk(query) ==
    LET query_lower == Normalize(query) IN
    /\ WordCount(query_lower) <= SMALL_TALK_MAX_WORDS
    /\ \/ \E p \in SMALL_TALK_PREFIXES : StartsWith(query_lower, p)
       \/ \E p \in SMALL_TALK_ANYWHERE : Contains(query_lower, p)
       \/ \E p \in SMALL_TALK_WHOLE : IsExactly(query_lower, p)

is_repeat_request(query) ==
    LET query_lower == Normalize(query) IN
    /\ WordCount(query_lower) <= REPEAT_MAX_WORDS
    /\ \/ \E p \in REPEAT_ANYWHERE : Contains(query_lower, p)
       \/ \E p \in REPEAT_WHOLE : IsExactly(query_lower, p)

is_yes(query) ==
    LET query_lower == Normalize(query) IN
    \/ \E p \in YES_WHOLE : StartsThenOnlyEndMarks(query_lower, p)
    \/ \E p \in YES_PREFIXES : StartsWith(query_lower, p)

is_no(query) ==
    LET query_lower == Normalize(query) IN
    \E p \in NO_WHOLE : StartsThenOnlyEndMarks(query_lower, p)

(***************************************************************************)
(* Messages and texts.                                                     *)
(***************************************************************************)
HumanMessage(c) == [role |-> "human", content |-> c]
AIMessage(c) == [role |-> "ai", content |-> c]

\* [m for m in messages if isinstance(m, HumanMessage)] / AIMessage
OfRole(msgs, r) == SelectSeq(msgs, LAMBDA m : m.role = r)

Last(seq) == seq[Len(seq)]

\* the value of dict.get(key, default) when the model left the key out
ABSENT == <<"<absent>">>
Get(v, default) == IF v = ABSENT THEN default ELSE v

\* what run_agent hands back when it re-raises
RAISED == <<"<raised>">>
NO_RESPONSE == <<"<none>">>
DEFAULT_RESPONSE == <<"I'm here to help you learn!">>

GENERAL_FALLBACK ==
    <<"That's a great question! Let me know if you'd like me to explain further.">>
OFFER_FALLBACK ==
    <<"That's an interesting topic! Would you like me to break it down step by step?">>
DECLINE_MESSAGE ==
    <<"No problem at all! Feel free to ask me anything else whenever you are ready.">>
NOTHING_TO_REPEAT == <<"I do not have anything to repeat yet. Let us continue!">>
LETS_CONTINUE == <<"Let us continue with our lesson!">>

\* the lists random.choice draws from; the draw is an index
REPEAT_PREFIXES_FAST ==
    << <<"Sure, let me repeat that. ">>, <<"No problem, here it is again. ">>,
       <<"Of course, I will say it again. ">> >>
REPEAT_PREFIXES_LLM ==
    << <<"Sure, let me repeat. ">>, <<"No problem. ">>, <<"Of course. ">> >>
RandomDraws == 1..3

\* free-form answers of the model, one text per prompt
LLM_GENERAL == <<"[general answer]">>
LLM_BRIEF == <<"[brief answer and offer]">>
LLM_EXPLAIN(step_content) == <<"[explanation of">> \o step_content \o <<"]">>
LLM_COMPLETE == <<"[lesson wrap-up]">>
EXPLANATION_FALLBACK(topic) ==
    <<"Let me tell you about this part of">> \o topic \o <<". What do you think?">>
LLM_CLARIFY == <<"[clarification answer]">>
LLM_SMALL_TALK == <<"[small talk reply]">>
LLM_FEEDBACK == <<"[evaluator feedback]">>

(***************************************************************************)
(* Inputs: utterances and the outcomes of the model calls.                 *)
(***************************************************************************)
\* Utterances of a session.  Between them they fall on both sides of every
\* test the turn runner and the nodes make on an utterance:
\*   "Yes"                  affirmative; not small talk, not a repeat request
\*   "i'm good"             small talk and negative; not a repeat request
\*   "can you repeat that"  repeat request; neither affirmative nor negative
Queries ==
    { <<"Yes">>, <<"i'm", "good">>, <<"can", "you", "repeat", "that">> }

ClassifierTopics == { ABSENT, <<>>, <<"photosynthesis">> }
NO_LABEL == "<absent>"
QueryTypes == { NO_LABEL, "general", "explanation", "other" }
PlannerTopics == { ABSENT, <<>>, <<"Photosynthesis">> }
Feedbacks == { ABSENT, <<>>, LLM_FEEDBACK }
SuggestedActions ==
    { NO_LABEL, "continue_lesson", "answer_and_continue", "switch_topic",
      "politely_redirect", "handle_small_talk", "repeat_last_message" }

\* a free-form call: the text, or a raised error
FreeFormOutcomes == { "ok", "raise" }

\* a structured call: raised error ("raise"), no tool call ("none"), or the
\* arguments of the tool call ("tool")
ClassifierOutcomes ==
    { [kind |-> k, query_type |-> NO_LABEL, topic |-> ABSENT] : k \in {"raise", "none"} }
    \cup
    { [kind |-> "tool", query_type |-> t, topic |-> tp] :
        t \in QueryTypes, tp \in ClassifierTopics }

\* the planner's steps are "step 1" .. "step n"
ModelSteps(n) == [i \in 1..n |-> <<"step", ToString(i)>>]

PlannerOutcomes ==
    { [kind |-> k, topic |-> ABSENT, steps |-> <<>>] : k \in {"raise", "none"} }
    \cup
    { [kind |-> "tool", topic |-> tp, steps |-> ModelSteps(n)] :
        tp \in PlannerTopics, n \in 0..MaxModelSteps }

EvaluatorOutcomes ==
    { [kind |-> k, is_correct |-> TRUE, feedback |-> ABSENT] : k \in {"raise", "none"} }
    \cup
    { [kind |-> "tool", is_correct |-> c, feedback |-> f] :
        c \in BOOLEAN, f \in Feedbacks }

AnalyzerOutcomes ==
    { [kind |-> k, suggested_action |-> NO_LABEL, reply |-> "ok"] : k \in {"raise", "none"} }
    \cup
    { [kind |-> "tool", suggested_action |-> sa, reply |-> r] :
        sa \in SuggestedActions, r \in FreeFormOutcomes }


(***************************************************************************)
(* State.                                                                  *)
(*   state      the values of the session's checkpoint (AgentState); the   *)
(*              opaque fields user and session_id are left out             *)
(*   has_state  bool(current_state.values): a checkpoint exists            *)
(*   pc         "idle" between turns, else the node about to run, or END   *)
(*   path       the nodes run so far in the current (or last) traversal    *)
(*   response   what the last run_agent call returned                      *)
(*   turns      number of run_agent calls made                             *)
(*   explained  history: the lesson_step of each generate_explanation run  *)
(*              since the last plan_lesson                                 *)
(*   last_query the query argument of the last run_agent call              *)
(*   answered   history: the analyses that yielded context_analyzed since  *)
(*              the last plan_lesson                                       *)
(*   staged     history: evaluate_response has written a non-empty         *)
(*              feedback in the current traversal                          *)
(* The transport (app/routers/agent.py), seen across concurrent requests:  *)
(*   req          each request's position and local values                 *)
(*   sessions     the documents of the Mongo collection "sessions"         *)
(*   checkpoint   the checkpoint stored per thread_id: the turns saved     *)
(*   cached_agent the module global _cached_agent (0 is None)              *)
(*   builds       number of build_agent executions                         *)
(* The text functions, applied to one drawn input:                         *)
(*   text         the input and what has been computed from it             *)
(***************************************************************************)
VARIABLES state, has_state, pc, path, response, turns, explained, last_query,
          answered, staged,
          req, sessions, checkpoint, cached_agent, builds,
          text

agent_vars ==
    <<state, has_state, pc, path, response, turns, explained, last_query,
      answered, staged>>
server_vars == <<req, sessions, checkpoint, cached_agent, builds>>
text_vars == <<text>>
vars == <<agent_vars, server_vars, text_vars>>

END == "__end__"
ROUTE_ERROR == "__unknown_route__"

NodeNames ==
    { "classify_query", "general_answer", "brief_answer_and_offer",
      "handle_lesson_confirmation", "plan_lesson", "generate_explanation",
      "analyze_topic", "evaluate_response", "complete_lesson" }

\* the values run_agent writes for a new session
InitialFields ==
    [ query |-> <<>>, messages |-> <<>>, mode |-> "general", topic |-> <<>>,
      lesson_plan |-> <<>>, lesson_step |-> 0, last_action |-> "initial",
      awaiting_lesson_confirmation |-> FALSE, pending_topic |-> <<>>,
      feedback |-> <<>>, last_explanation |-> <<>> ]

\* messages: Annotated[list, operator.add]
AddMessage(s, c) == [s EXCEPT !.messages = @ \o <<AIMessage(c)>>]

(***************************************************************************)
(* Graph nodes: the state after the node, given the state before it and    *)
(* the outcome of its model call.                                          *)
(***************************************************************************)
Classified(query_type) ==
    CASE query_type = "general" -> "classified_general"
      [] query_type = "explanation" -> "classified_explanation"
      [] OTHER -> "classified_other"

\* variant: a topic already staged is kept
classify_query_keeps_staged(s, out) ==
    IF s.pending_topic # <<>>
    THEN [s EXCEPT
            !.last_action =
                IF out.kind = "tool"
                THEN Classified(IF out.query_type = NO_LABEL THEN "general"
                                ELSE out.query_type)
                ELSE "classified_general"]
    ELSE IF out.kind = "tool"
    THEN [s EXCEPT
            !.last_action =
                Classified(IF out.query_type = NO_LABEL THEN "general" ELSE out.query_type),
            !.pending_topic = Get(out.topic, s.query)]
    ELSE [s EXCEPT !.last_action = "classified_general", !.pending_topic = s.query]

classify_query(s, out) ==
    IF out.kind = "tool"
    THEN [s EXCEPT
            !.last_action =
                Classified(IF out.query_type = NO_LABEL THEN "general" ELSE out.query_type),
            !.pending_topic = Get(out.topic, s.query)]
    ELSE [s EXCEPT !.last_action = "classified_general", !.pending_topic = s.query]

general_answer(s, out) ==
    [AddMessage(s, IF out = "ok" THEN LLM_GENERAL ELSE GENERAL_FALLBACK) EXCEPT
        !.last_action = "general_answered",
        !.mode = "general"]

\* variant: the offer already records the offered topic as the lesson topic
brief_answer_and_offer_sets_topic(s, out) ==
    [AddMessage(s, IF out = "ok" THEN LLM_BRIEF ELSE OFFER_FALLBACK) EXCEPT
        !.last_action = "offered_lesson",
        !.awaiting_lesson_confirmation = TRUE,
        !.pending_topic = s.pending_topic,
        !.topic = s.pending_topic,
        !.mode = "general"]

brief_answer_and_offer(s, out) ==
    [AddMessage(s, IF out = "ok" THEN LLM_BRIEF ELSE OFFER_FALLBACK) EXCEPT
        !.last_action = "offered_lesson",
        !.awaiting_lesson_confirmation = TRUE,
        !.pending_topic = s.pending_topic,
        !.mode = "general"]

\* variant: an ambiguous reply leaves the offer pending
handle_lesson_confirmation_keeps_offer(s) ==
    IF is_yes(s.query)
    THEN [s EXCEPT
            !.last_action = "confirmed_lesson",
            !.awaiting_lesson_confirmation = FALSE,
            !.mode = "explanation"]
    ELSE IF is_no(s.query)
    THEN [AddMessage(s, DECLINE_MESSAGE) EXCEPT
            !.last_action = "declined_lesson",
            !.awaiting_lesson_confirmation = FALSE,
            !.pending_topic = <<>>,
            !.mode = "general"]
    ELSE [s EXCEPT
            !.last_action = "ambiguous_confirmation",
            !.pending_topic = <<>>,
            !.mode = "general"]

\* variant: an accepted offer is not marked as answered
handle_lesson_confirmation_yes_keeps_offer(s) ==
    IF is_yes(s.query)
    THEN [s EXCEPT !.last_action = "confirmed_lesson", !.mode = "explanation"]
    ELSE IF is_no(s.query)
    THEN [AddMessage(s, DECLINE_MESSAGE) EXCEPT
            !.last_action = "declined_lesson",
            !.awaiting_lesson_confirmation = FALSE,
            !.pending_topic = <<>>,
            !.mode = "general"]
    ELSE [s EXCEPT
            !.last_action = "ambiguous_confirmation",
            !.awaiting_lesson_confirmation = FALSE,
            !.pending_topic = <<>>,
            !.mode = "general"]

\* variant: a declined offer keeps its topic staged
handle_lesson_confirmation_decline_keeps_topic(s) ==
    IF is_yes(s.query)
    THEN [s EXCEPT
            !.last_action = "confirmed_lesson",
            !.awaiting_lesson_confirmation = FALSE,
            !.mode = "explanation"]
    ELSE IF is_no(s.query)
    THEN [AddMessage(s, DECLINE_MESSAGE) EXCEPT
            !.last_action = "declined_lesson",
            !.awaiting_lesson_confirmation = FALSE,
            !.mode = "general"]
    ELSE [s EXCEPT
            !.last_action = "ambiguous_confirmation",
            !.awaiting_lesson_confirmation = FALSE,
            !.pending_topic = <<>>,
            !.mode = "general"]

handle_lesson_confirmation(s) ==
    IF is_yes(s.query)
    THEN [s EXCEPT
            !.last_action = "confirmed_lesson",
            !.awaiting_lesson_confirmation = FALSE,
            !.mode = "explanation"]
    ELSE IF is_no(s.query)
    THEN [AddMessage(s, DECLINE_MESSAGE) EXCEPT
            !.last_action = "declined_lesson",
            !.awaiting_lesson_confirmation = FALSE,
            !.pending_topic = <<>>,
            !.mode = "general"]
    ELSE [s EXCEPT
            !.last_action = "ambiguous_confirmation",
            !.awaiting_lesson_confirmation = FALSE,
            !.pending_topic = <<>>,
            !.mode = "general"]

\* steps + [pad] * (3 - len(steps)), then steps[:MAX_STEPS]
PadAndTruncate(steps, pad) ==
    LET padded == IF Len(steps) < MIN_STEPS
                  THEN steps \o [i \in 1..(MIN_STEPS - Len(steps)) |-> pad]
                  ELSE steps
    IN  SubSeq(padded, 1, IF Len(padded) < MAX_STEPS THEN Len(padded) ELSE MAX_STEPS)

\* variant: the cursor starts at 0, as an index into lesson_plan
plan_lesson_zero_indexed(s, out) ==
    LET topic == s.pending_topic
        refined_topic == IF out.kind = "tool" THEN Get(out.topic, topic) ELSE topic
        steps == IF out.kind = "tool"
                 THEN PadAndTruncate(out.steps, <<"Additional aspect of">> \o refined_topic)
                 ELSE << <<"Understanding">> \o topic >>
    IN  [AddMessage(s, <<"Let us learn about">> \o refined_topic \o <<"!">>) EXCEPT
            !.topic = refined_topic,
            !.lesson_plan = steps,
            !.lesson_step = 0,
            !.last_action = "planned",
            !.mode = "explanation",
            !.pending_topic = <<>>]

\* variant: a raised error leaves the session without a plan
plan_lesson_error_unplanned(s, out) ==
    LET topic == s.pending_topic IN
    IF out.kind = "tool"
    THEN LET refined_topic == Get(out.topic, topic)
             steps == PadAndTruncate(out.steps, <<"Additional aspect of">> \o refined_topic)
         IN  [AddMessage(s, <<"Great, I have planned a lesson on">> \o refined_topic
                            \o <<"with", ToString(Len(steps)), "sub-topics. Let us dive in!">>)
              EXCEPT
                !.topic = refined_topic,
                !.lesson_plan = steps,
                !.lesson_step = 1,
                !.last_action = "planned",
                !.mode = "explanation",
                !.pending_topic = <<>>]
    ELSE IF out.kind = "none"
    THEN [AddMessage(s, <<"Let us explore">> \o topic \o <<"together!">>) EXCEPT
            !.topic = topic,
            !.lesson_plan = << <<"Introduction to">> \o topic,
                               <<"Key concepts of">> \o topic,
                               <<"Practical applications of">> \o topic >>,
            !.lesson_step = 1,
            !.last_action = "planned",
            !.mode = "explanation",
            !.pending_topic = <<>>]
    ELSE [AddMessage(s, <<"Let us learn about">> \o topic \o <<"!">>) EXCEPT
            !.topic = topic,
            !.last_action = "planned",
            !.mode = "explanation"]

plan_lesson(s, out) ==
    LET topic == s.pending_topic IN
    IF out.kind = "tool"
    THEN LET refined_topic == Get(out.topic, topic)
             steps == PadAndTruncate(out.steps, <<"Additional aspect of">> \o refined_topic)
         IN  [AddMessage(s, <<"Great, I have planned a lesson on">> \o refined_topic
                            \o <<"with", ToString(Len(steps)), "sub-topics. Let us dive in!">>)
              EXCEPT
                !.topic = refined_topic,
                !.lesson_plan = steps,
                !.lesson_step = 1,
                !.last_action = "planned",
                !.mode = "explanation",
                !.pending_topic = <<>>]
    ELSE IF out.kind = "none"
    THEN [AddMessage(s, <<"Let us explore">> \o topic \o <<"together!">>) EXCEPT
            !.topic = topic,
            !.lesson_plan = << <<"Introduction to">> \o topic,
                               <<"Key concepts of">> \o topic,
                               <<"Practical applications of">> \o topic >>,
            !.lesson_step = 1,
            !.last_action = "planned",
            !.mode = "explanation",
            !.pending_topic = <<>>]
    ELSE [AddMessage(s, <<"Let us learn about">> \o topic \o <<"!">>) EXCEPT
            !.topic = topic,
            !.lesson_plan = << <<"Understanding">> \o topic >>,
            !.lesson_step = 1,
            !.last_action = "planned",
            !.mode = "explanation"]

\* lesson_plan[step - 1] if lesson_plan and step <= len(lesson_plan) else default
\* (Python counts a negative index from the end)
StepContent(lesson_plan, step, default) ==
    IF lesson_plan # <<>> /\ step <= Len(lesson_plan)
    THEN IF step >= 1 THEN lesson_plan[step] ELSE lesson_plan[Len(lesson_plan) + step]
    ELSE default

\* the index expression raises IndexError below -len(lesson_plan)
StepIndexRaises(lesson_plan, step) ==
    lesson_plan # <<>> /\ step <= Len(lesson_plan) /\ step - 1 < 0 - Len(lesson_plan)

generate_explanation(s, out) ==
    IF out = "ok" /\ ~StepIndexRaises(s.lesson_plan, s.lesson_step)
    THEN LET content == LLM_EXPLAIN(StepContent(s.lesson_plan, s.lesson_step,
                                                <<"Step", ToString(s.lesson_step)>>))
             final_content == IF s.feedback # <<>>
                              THEN s.feedback \o <<"\n\n">> \o content
                              ELSE content
         IN  [AddMessage(s, final_content) EXCEPT
                !.last_action = "explained",
                !.feedback = <<>>,
                !.last_explanation = final_content]
    ELSE [AddMessage(s, EXPLANATION_FALLBACK(s.topic)) EXCEPT !.last_action = "explained"]

\* variant: a raised error leaves the cursor where it was
evaluate_response_error_stalls(s, out) ==
    IF OfRole(s.messages, "human") = <<>>
    THEN [s EXCEPT !.last_action = "proceed"]
    ELSE IF out.kind = "tool"
    THEN [s EXCEPT
            !.lesson_step = s.lesson_step + 1,
            !.last_action = "proceed",
            !.feedback = Get(out.feedback, <<>>)]
    ELSE IF out.kind = "none"
    THEN [s EXCEPT
            !.lesson_step = s.lesson_step + 1,
            !.last_action = "proceed"]
    ELSE [s EXCEPT !.last_action = "proceed"]

\* variant: the superseded policy, a wrong answer stays on the sub-topic
evaluate_response_reexplains(s, out) ==
    IF OfRole(s.messages, "human") = <<>>
    THEN [s EXCEPT !.last_action = "proceed"]
    ELSE IF out.kind = "tool"
    THEN [s EXCEPT
            !.lesson_step = IF out.is_correct THEN s.lesson_step + 1 ELSE s.lesson_step,
            !.last_action = "proceed",
            !.feedback = Get(out.feedback, <<>>)]
    ELSE [s EXCEPT
            !.lesson_step = s.lesson_step + 1,
            !.last_action = "proceed"]

evaluate_response(s, out) ==
    IF OfRole(s.messages, "human") = <<>>
    THEN [s EXCEPT !.last_action = "proceed"]
    ELSE IF out.kind = "tool"
    THEN [s EXCEPT
            !.lesson_step = s.lesson_step + 1,
            !.last_action = "proceed",
            !.feedback = Get(out.feedback, <<>>)]
    ELSE [s EXCEPT
            !.lesson_step = s.lesson_step + 1,
            !.last_action = "proceed"]


\* one free-form call; the caller sees its error when it raises
handle_small_talk(query) == LLM_SMALL_TALK

analyze_topic_context(s, out, draw) ==
    LET user_messages == OfRole(s.messages, "human")
        ai_messages == OfRole(s.messages, "ai")
        lesson_step == s.lesson_step
        total == ToString(Len(s.lesson_plan))
        latest_user_query == Last(user_messages).content
        last_agent_message ==
            IF s.last_explanation # <<>> THEN s.last_explanation
            ELSE IF ai_messages # <<>> THEN Last(ai_messages).content ELSE <<>>
        action == IF out.suggested_action = NO_LABEL THEN "continue_lesson"
                  ELSE out.suggested_action
    IN
    IF user_messages = <<>> \/ s.topic = <<>>
    THEN [s EXCEPT !.last_action = "context_analyzed"]
    ELSE IF Last(s.messages).role = "ai"
    THEN [s EXCEPT !.last_action = "waiting_for_response"]
    ELSE IF is_repeat_request(latest_user_query)
    THEN [AddMessage(s, IF last_agent_message # <<>>
                        THEN REPEAT_PREFIXES_FAST[draw] \o last_agent_message
                        ELSE NOTHING_TO_REPEAT)
          EXCEPT !.last_action = "repeated"]
    ELSE IF out.kind # "tool"
    THEN [s EXCEPT !.last_action = "context_analyzed"]
    ELSE IF action = "switch_topic"
    THEN [AddMessage(s, <<"Sure thing! We covered", ToString(lesson_step - 1), "out of",
                          total, "sub-topics on">> \o s.topic
                        \o <<". What would you like to know about?">>)
          EXCEPT
            !.last_action = "exited_lesson",
            !.mode = "general",
            !.topic = <<>>,
            !.lesson_plan = <<>>,
            !.lesson_step = 0,
            !.last_explanation = <<>>,
            !.feedback = <<>>]
    ELSE IF action = "answer_and_continue"
    THEN IF out.reply = "ok"
         THEN [AddMessage(s, LLM_CLARIFY) EXCEPT !.last_action = "answered_question"]
         ELSE [s EXCEPT !.last_action = "context_analyzed"]
    ELSE IF action = "politely_redirect"
    THEN [AddMessage(s, <<"Interesting question! Let us finish our lesson on">> \o s.topic
                        \o <<"first though. We are on sub-topic", ToString(lesson_step),
                             "of", total,
                             ". Once done, I can help with anything else!">>)
          EXCEPT !.last_action = "redirected"]
    ELSE IF action = "handle_small_talk"
    THEN IF out.reply = "ok"
         THEN [AddMessage(s, handle_small_talk(latest_user_query)
                             \o <<" Anyway, we are on sub-topic", ToString(lesson_step),
                                  "of", total, "in our">> \o s.topic
                             \o <<"lesson. Ready to continue?">>)
               EXCEPT !.last_action = "small_talk_responded"]
         ELSE [s EXCEPT !.last_action = "context_analyzed"]
    ELSE IF action = "repeat_last_message"
    THEN [AddMessage(s, IF last_agent_message # <<>>
                        THEN REPEAT_PREFIXES_LLM[draw] \o last_agent_message
                        ELSE LETS_CONTINUE)
          EXCEPT !.last_action = "repeated"]
    ELSE [s EXCEPT !.last_action = "context_analyzed"]

complete_lesson(s, out) ==
    IF out = "ok"
    THEN [AddMessage(s, IF s.feedback # <<>>
                        THEN s.feedback \o <<"\n\n">> \o LLM_COMPLETE
                        ELSE LLM_COMPLETE)
          EXCEPT
            !.last_action = "lesson_completed",
            !.mode = "general",
            !.topic = <<>>,
            !.lesson_plan = <<>>,
            !.lesson_step = 0,
            !.last_explanation = <<>>,
            !.feedback = <<>>,
            !.pending_topic = <<>>]
    ELSE [AddMessage(s, <<"Great work completing the lesson on">> \o s.topic
                        \o <<"! Feel free to ask me anything.">>)
          EXCEPT
            !.last_action = "lesson_completed",
            !.mode = "general",
            !.topic = <<>>,
            !.lesson_plan = <<>>,
            !.lesson_step = 0]

(***************************************************************************)
(* Routing functions: the key each returns.                                *)
(***************************************************************************)
\* variant: the pending offer is not looked at
route_start_ignoring_offer(s) ==
    IF s.mode = "explanation" /\ s.topic # <<>> /\ s.lesson_plan # <<>>
    THEN "analyze_topic"
    ELSE "classify_query"

route_start(s) ==
    IF s.awaiting_lesson_confirmation THEN "handle_lesson_confirmation"
    ELSE IF s.mode = "explanation" /\ s.topic # <<>> /\ s.lesson_plan # <<>>
    THEN "analyze_topic"
    ELSE "classify_query"

\* variant: only the label general is answered directly
route_after_classification_strict(s) ==
    IF s.last_action = "classified_general" THEN "general_answer"
    ELSE "brief_answer_and_offer"

route_after_classification(s) ==
    IF s.last_action = "classified_explanation" THEN "brief_answer_and_offer"
    ELSE "general_answer"

route_after_confirmation(s) ==
    IF s.last_action = "confirmed_lesson" THEN "plan_lesson"
    ELSE IF s.last_action = "ambiguous_confirmation" THEN "classify_query"
    ELSE "end"

\* variant: leaving a lesson goes straight to planning the next one
route_after_topic_analysis_replanning(s) ==
    IF s.last_action = "context_analyzed" THEN "evaluate_response"
    ELSE IF s.last_action = "exited_lesson" THEN "plan_lesson"
    ELSE "end"

\* variant: leaving a lesson ends the turn on the progress summary
route_after_topic_analysis_exit_ends(s) ==
    IF s.last_action = "context_analyzed" THEN "evaluate_response"
    ELSE "end"

\* variant: a clarification is evaluated as an answer
route_after_topic_analysis_clarification_evaluated(s) ==
    IF s.last_action \in {"context_analyzed", "answered_question"} THEN "evaluate_response"
    ELSE IF s.last_action = "exited_lesson" THEN "classify_query"
    ELSE "end"

route_after_topic_analysis(s) ==
    IF s.last_action = "context_analyzed" THEN "evaluate_response"
    ELSE IF s.last_action = "exited_lesson" THEN "classify_query"
    ELSE "end"

\* variant: completion is tested one step late
route_after_evaluation_late(s) ==
    IF s.lesson_step > Len(s.lesson_plan) + 1 THEN "complete_lesson"
    ELSE "generate_explanation"

\* variant: the lesson is completed in place of its last sub-topic
route_after_evaluation_early(s) ==
    IF s.lesson_step >= Len(s.lesson_plan) THEN "complete_lesson"
    ELSE "generate_explanation"

route_after_evaluation(s) ==
    IF s.lesson_step > Len(s.lesson_plan) THEN "complete_lesson"
    ELSE "generate_explanation"

(***************************************************************************)
(* build_agent: the edge mappings of the conditional edges and the fixed   *)
(* edges.                                                                  *)
(***************************************************************************)
START_EDGES ==
    [ handle_lesson_confirmation |-> "handle_lesson_confirmation",
      analyze_topic |-> "analyze_topic",
      classify_query |-> "classify_query" ]

\* variant: the offer branch is wired to plan_lesson
CLASSIFY_EDGES_offer_plans ==
    [ general_answer |-> "general_answer",
      brief_answer_and_offer |-> "plan_lesson" ]

CLASSIFY_EDGES ==
    [ general_answer |-> "general_answer",
      brief_answer_and_offer |-> "brief_answer_and_offer" ]

CONFIRMATION_EDGES ==
    [ plan_lesson |-> "plan_lesson", classify_query |-> "classify_query", end |-> END ]

ANALYSIS_EDGES ==
    [ evaluate_response |-> "evaluate_response", plan_lesson |-> "plan_lesson",
      classify_query |-> "classify_query", end |-> END ]

EVALUATION_EDGES ==
    [ generate_explanation |-> "generate_explanation",
      complete_lesson |-> "complete_lesson" ]

\* a conditional edge: the target its mapping gives for the router's key
Follow(edges, key) == IF key \in DOMAIN edges THEN edges[key] ELSE ROUTE_ERROR

\* variant: the edge plan_lesson -> generate_explanation is replaced by plan_lesson -> END
NextNode_plan_ends(n, s) ==
    CASE n = "classify_query" -> Follow(CLASSIFY_EDGES, route_after_classification(s))
      [] n = "general_answer" -> END
      [] n = "brief_answer_and_offer" -> END
      [] n = "handle_lesson_confirmation" ->
            Follow(CONFIRMATION_EDGES, route_after_confirmation(s))
      [] n = "plan_lesson" -> END
      [] n = "generate_explanation" -> END
      [] n = "analyze_topic" -> Follow(ANALYSIS_EDGES, route_after_topic_analysis(s))
      [] n = "evaluate_response" -> Follow(EVALUATION_EDGES, route_after_evaluation(s))
      [] n = "complete_lesson" -> END

\* the node (or END) that follows node n in state s
NextNode(n, s) ==
    CASE n = "classify_query" -> Follow(CLASSIFY_EDGES, route_after_classification(s))
      [] n = "general_answer" -> END
      [] n = "brief_answer_and_offer" -> END
      [] n = "handle_lesson_confirmation" ->
            Follow(CONFIRMATION_EDGES, route_after_confirmation(s))
      [] n = "plan_lesson" -> "generate_explanation"
      [] n = "generate_explanation" -> END
      [] n = "analyze_topic" -> Follow(ANALYSIS_EDGES, route_after_topic_analysis(s))
      [] n = "evaluate_response" -> Follow(EVALUATION_EDGES, route_after_evaluation(s))
      [] n = "complete_lesson" -> END


(***************************************************************************)
(* Speech text (app/agents/utility.py).  Here a text is a sequence of      *)
(* characters; " " stands for any whitespace character.                    *)
(***************************************************************************)
\* the characters of the class [.!?]
SentenceEnds == { ".", "!", "?" }

\* re.split(r'(?<=[.!?])\s+', t): t is cut at every run of whitespace that
\* follows a sentence end; the run is dropped
RECURSIVE SplitAfterSentenceEnds(_)
SplitAfterSentenceEnds(t) ==
    LET cuts == { i \in 1..(Len(t) - 1) : t[i] \in SentenceEnds /\ t[i + 1] = " " } IN
    IF cuts = {} THEN << t >>
    ELSE LET i == CHOOSE c \in cuts : \A d \in cuts : c <= d
             rest == StripLeft(SubSeq(t, i + 1, Len(t)))
         IN  << SubSeq(t, 1, i) >> \o SplitAfterSentenceEnds(rest)

split_into_sentences(t) ==
    LET raw_parts == SplitAfterSentenceEnds(StripRight(StripLeft(t)))
        stripped == [i \in 1..Len(raw_parts) |-> StripRight(StripLeft(raw_parts[i]))]
        sentences == SelectSeq(stripped, LAMBDA part : part # <<>>)
    IN  IF sentences = <<>> THEN << StripRight(StripLeft(t)) >> ELSE sentences

\* variant: the sentences are synthesised last to first
sentence_pipelined_tts_last_first(t) ==
    LET sentences == split_into_sentences(t) IN
    IF Len(sentences) <= 1 THEN << [call |-> "streaming_audio_response", text |-> t] >>
    ELSE [i \in 1..Len(sentences) |->
             [call |-> "tts_sentence", text |-> sentences[Len(sentences) + 1 - i]]]

\* sentence_pipelined_tts: the calls it makes to the speech service, in order
WholeText(t) == [call |-> "streaming_audio_response", text |-> t]
OneSentence(sentence) == [call |-> "tts_sentence", text |-> sentence]

sentence_pipelined_tts(t) ==
    LET sentences == split_into_sentences(t) IN
    IF Len(sentences) <= 1 THEN << WholeText(t) >>
    ELSE [i \in 1..Len(sentences) |-> OneSentence(sentences[i])]

(***************************************************************************)
(* Text functions under test: the values drawn for them.                   *)
(***************************************************************************)
\* no input drawn: the text functions are not exercised
NoText ==
    [ kind |-> "none", input |-> <<>>, done |-> FALSE, yes |-> FALSE, no |-> FALSE,
      sentences |-> <<>>, calls |-> <<>> ]

TextInit == text = NoText

(***************************************************************************)
(* Transport: requests served concurrently (app/routers/agent.py).         *)
(***************************************************************************)
Requests == 1..MaxRequests
Users == { "u1", "u2" }
Endpoints == { "query", "voice" }
Languages == { "en-IN", "hi-IN" }

\* "device_session_id_" + user_id
SessionId(user_id) == << "device_session_id_", user_id >>
SessionIds == { SessionId(u) : u \in Users }

\* the texts a turn may return, as speech text
ServerResponses ==
    { << "w", "." >>, << "w", ".", " ", "w", "?" >> }

\* a request that has not arrived
NewRequest ==
    [ pc |-> "new", user |-> "u1", endpoint |-> "query", language |-> "en-IN",
      session_id |-> <<>>, agent |-> 0, loaded |-> <<>>, failed |-> FALSE,
      result |-> NO_RESPONSE, final_response |-> <<>>,
      filler |-> "none", handler |-> "none", stream |-> <<>>, pending |-> <<>> ]

ServerInit ==
    /\ req = [r \in Requests |-> NewRequest]
    /\ sessions = <<>>
    /\ checkpoint = [sid \in SessionIds |-> <<>>]
    /\ cached_agent = 0
    /\ builds = 0

(***************************************************************************)
(* run_agent.                                                              *)
(***************************************************************************)
has_active_lesson == has_state /\ state.topic # <<>>
is_awaiting == has_state /\ state.awaiting_lesson_confirmation

\* variant: a pending lesson offer does not keep small talk off the fast path
TakesFastPath_ignoring_offer(query) == ~has_active_lesson /\ is_small_talk(query)

TakesFastPath(query) == ~has_active_lesson /\ ~is_awaiting /\ is_small_talk(query)

\* variant: a re-initialising input replaces the message list
ApplyInput_replacing(s, query, resume) ==
    IF resume
    THEN [s EXCEPT !.messages = @ \o <<HumanMessage(query)>>, !.query = query]
    ELSE [InitialFields EXCEPT
            !.messages = <<HumanMessage(query)>>,
            !.query = query]

\* variant: a re-initialising input keeps the staged feedback and the last
\* explanation
ApplyInput_keeping_feedback(s, query, resume) ==
    IF resume
    THEN [s EXCEPT !.messages = @ \o <<HumanMessage(query)>>, !.query = query]
    ELSE [InitialFields EXCEPT
            !.messages = s.messages \o <<HumanMessage(query)>>,
            !.query = query,
            !.feedback = s.feedback,
            !.last_explanation = s.last_explanation]

\* the channel values after the graph has taken run_agent's input_state:
\* messages are appended, every other key given replaces the stored value
ApplyInput(s, query, resume) ==
    IF resume
    THEN [s EXCEPT !.messages = @ \o <<HumanMessage(query)>>, !.query = query]
    ELSE [InitialFields EXCEPT
            !.messages = s.messages \o <<HumanMessage(query)>>,
            !.query = query]

\* variant: the oldest assistant message is returned
ExtractResponse_oldest(s) ==
    LET ai_messages == OfRole(s.messages, "ai") IN
    IF ai_messages # <<>> THEN ai_messages[1].content ELSE DEFAULT_RESPONSE

\* ai_messages[-1].content if ai_messages else the default text
ExtractResponse(s) ==
    LET ai_messages == OfRole(s.messages, "ai") IN
    IF ai_messages # <<>> THEN Last(ai_messages).content ELSE DEFAULT_RESPONSE

\* one session before its first turn
AgentInit ==
    /\ state = InitialFields
    /\ has_state = FALSE
    /\ pc = "idle"
    /\ path = <<>>
    /\ response = NO_RESPONSE
    /\ turns = 0
    /\ explained = <<>>
    /\ last_query = <<>>
    /\ answered = 0
    /\ staged = FALSE

Init == AgentInit /\ ServerInit /\ TextInit

\* small talk with no lesson and no pending offer: one model call, no graph
SmallTalkFastPath ==
    \E query \in Queries, out \in FreeFormOutcomes :
        /\ pc = "idle"
        /\ turns < MaxTurns
        /\ TakesFastPath(query)
        /\ response' = IF out = "ok" THEN handle_small_talk(query) ELSE RAISED
        /\ turns' = turns + 1
        /\ path' = <<>>
        /\ last_query' = query
        /\ UNCHANGED <<state, has_state, pc, explained, answered, staged,
                       server_vars, text_vars>>

\* run_agent up to the first node: build input_state, enter the graph at START;
\* the utterance is one of queries, and at most limit calls are followed
BeginTurnWithin(queries, limit) ==
    \E query \in queries :
        /\ pc = "idle"
        /\ turns < limit
        /\ ~TakesFastPath(query)
        /\ state' = ApplyInput(state, query, has_state /\ (has_active_lesson \/ is_awaiting))
        /\ has_state' = TRUE
        /\ pc' = Follow(START_EDGES, route_start(state'))
        /\ path' = <<>>
        /\ turns' = turns + 1
        /\ response' = NO_RESPONSE
        /\ last_query' = query
        /\ staged' = FALSE
        /\ UNCHANGED <<explained, answered, server_vars, text_vars>>

BeginTurn == BeginTurnWithin(Queries, MaxTurns)

\* one node of the traversal: its update, then the edge out of it
RunNode(n, new) ==
    /\ pc = n
    /\ state' = new
    /\ pc' = NextNode(n, new)
    /\ path' = Append(path, n)
    /\ UNCHANGED <<has_state, response, turns, last_query, server_vars, text_vars>>

\* each node's action draws the outcome of the node's model call from the
\* set given
ClassifyQueryOn(outcomes) ==
    /\ \E out \in outcomes : RunNode("classify_query", classify_query(state, out))
    /\ UNCHANGED <<explained, answered, staged>>

ClassifyQuery == ClassifyQueryOn(ClassifierOutcomes)

GeneralAnswer ==
    /\ \E out \in FreeFormOutcomes : RunNode("general_answer", general_answer(state, out))
    /\ UNCHANGED <<explained, answered, staged>>

BriefAnswerAndOfferOn(outcomes) ==
    /\ \E out \in outcomes :
          RunNode("brief_answer_and_offer", brief_answer_and_offer(state, out))
    /\ UNCHANGED <<explained, answered, staged>>

BriefAnswerAndOffer == BriefAnswerAndOfferOn(FreeFormOutcomes)

HandleLessonConfirmation ==
    /\ RunNode("handle_lesson_confirmation", handle_lesson_confirmation(state))
    /\ UNCHANGED <<explained, answered, staged>>

PlanLessonOn(outcomes) ==
    /\ \E out \in outcomes : RunNode("plan_lesson", plan_lesson(state, out))
    /\ explained' = <<>>
    /\ answered' = 0
    /\ UNCHANGED staged

PlanLesson == PlanLessonOn(PlannerOutcomes)

GenerateExplanationOn(outcomes) ==
    /\ \E out \in outcomes :
          RunNode("generate_explanation", generate_explanation(state, out))
    /\ explained' = Append(explained, state.lesson_step)
    /\ UNCHANGED <<answered, staged>>

GenerateExplanation == GenerateExplanationOn(FreeFormOutcomes)

AnalyzeTopicContextOn(outcomes) ==
    /\ \E out \in outcomes, draw \in RandomDraws :
          RunNode("analyze_topic", analyze_topic_context(state, out, draw))
    /\ answered' = IF state'.last_action = "context_analyzed"
                   THEN answered + 1 ELSE answered
    /\ UNCHANGED <<explained, staged>>

AnalyzeTopicContext == AnalyzeTopicContextOn(AnalyzerOutcomes)

EvaluateResponseOn(outcomes) ==
    /\ \E out \in outcomes :
          /\ RunNode("evaluate_response", evaluate_response(state, out))
          /\ staged' = /\ OfRole(state.messages, "human") # <<>>
                       /\ out.kind = "tool"
                       /\ Get(out.feedback, <<>>) # <<>>
    /\ UNCHANGED <<explained, answered>>

EvaluateResponse == EvaluateResponseOn(EvaluatorOutcomes)

CompleteLessonOn(outcomes) ==
    /\ \E out \in outcomes : RunNode("complete_lesson", complete_lesson(state, out))
    /\ UNCHANGED <<explained, answered, staged>>

CompleteLesson == CompleteLessonOn(FreeFormOutcomes)

\* agent.invoke has returned: the response is the last assistant message
ReturnResponse ==
    /\ pc = END
    /\ response' = ExtractResponse(state)
    /\ pc' = "idle"
    /\ UNCHANGED <<state, has_state, path, turns, explained, last_query, answered, staged,
                   server_vars, text_vars>>

Next ==
    \/ SmallTalkFastPath
    \/ BeginTurn
    \/ ClassifyQuery
    \/ GeneralAnswer
    \/ BriefAnswerAndOffer
    \/ HandleLessonConfirmation
    \/ PlanLesson
    \/ GenerateExplanation
    \/ AnalyzeTopicContext
    \/ EvaluateResponse
    \/ CompleteLesson
    \/ ReturnResponse

Spec == Init /\ [][Next]_vars

(***************************************************************************)
(* A lesson followed to its end.  The session starts where a lesson has    *)
(* just been planned and its first sub-topic explained (two calls of       *)
(* run_agent: an utterance classified as explanation and offered a         *)
(* lesson, then "Yes"); the calls that follow are explored over the        *)
(* outcomes that move a lesson: the learner answers, is redirected, makes  *)
(* small talk or leaves; calls of the model succeed or fail.               *)
(***************************************************************************)
LessonQueries == { << "Yes" >> }

LessonClassifierOutcomes ==
    { [kind |-> "tool", query_type |-> "explanation", topic |-> << "photosynthesis" >>] }

\* no plan (1 entry), too short a plan (padded to 3), a plan of 4
LessonPlannerOutcomes ==
    { o \in PlannerOutcomes :
        \/ o.kind = "raise"
        \/ o.kind = "tool" /\ o.topic = ABSENT /\ Len(o.steps) \in {0, 4} }

LessonAnalyzerOutcomes ==
    { o \in AnalyzerOutcomes :
        /\ o.kind = "tool"
        /\ o.reply = "ok"
        /\ o.suggested_action \in {"continue_lesson", "politely_redirect", "switch_topic",
                                   "handle_small_talk"} }

LessonEvaluatorOutcomes ==
    { o \in EvaluatorOutcomes :
        \/ o.kind = "raise"
        \/ o.kind = "tool" /\ o.is_correct /\ o.feedback = LLM_FEEDBACK }

\* the checkpoint after the two calls that start a lesson
LessonStart(planned, explained_as) ==
    LET offered ==
            brief_answer_and_offer(
                classify_query(
                    ApplyInput(InitialFields, << "can", "you", "repeat", "that" >>, FALSE),
                    CHOOSE o \in LessonClassifierOutcomes : TRUE),
                "ok")
        confirmed == handle_lesson_confirmation(ApplyInput(offered, << "Yes" >>, TRUE))
    IN  generate_explanation(plan_lesson(confirmed, planned), explained_as)

InitLesson ==
    /\ \E planned \in LessonPlannerOutcomes, explained_as \in FreeFormOutcomes :
          state = LessonStart(planned, explained_as)
    /\ has_state = TRUE
    /\ pc = "idle"
    /\ path = << "handle_lesson_confirmation", "plan_lesson", "generate_explanation" >>
    /\ response = ExtractResponse(state)
    /\ turns = 0
    /\ explained = << 1 >>
    /\ last_query = << "Yes" >>
    /\ answered = 0
    /\ staged = FALSE
    /\ ServerInit
    /\ TextInit

NextLesson ==
    \/ BeginTurnWithin(LessonQueries, MaxLessonTurns)
    \/ ClassifyQueryOn(LessonClassifierOutcomes)
    \/ BriefAnswerAndOfferOn({"ok"})
    \/ HandleLessonConfirmation
    \/ PlanLessonOn(LessonPlannerOutcomes)
    \/ GenerateExplanationOn(FreeFormOutcomes)
    \/ AnalyzeTopicContextOn(LessonAnalyzerOutcomes)
    \/ EvaluateResponseOn(LessonEvaluatorOutcomes)
    \/ CompleteLessonOn(FreeFormOutcomes)
    \/ ReturnResponse

SpecLesson == InitLesson /\ [][NextLesson]_vars

AtTurnBoundary == pc = "idle"

TypeOK ==
    /\ pc \in NodeNames \cup {"idle", END, ROUTE_ERROR}
    /\ state.mode \in {"general", "explanation"}
    /\ state.lesson_step \in Int
    /\ has_state \in BOOLEAN
    /\ turns \in 0..MaxTurns
    /\ last_query \in Queries \cup {<<>>}


(***************************************************************************)
(* Properties.                                                             *)
(***************************************************************************)
\* a lesson is active: the condition under which a turn enters at analyze_topic
ActiveLesson(s) == s.mode = "explanation" /\ s.topic # <<>> /\ s.lesson_plan # <<>>

LastNode == IF path = <<>> THEN "none" ELSE Last(path)
Ran(n) == \E i \in 1..Len(path) : path[i] = n

\* C1: at the start of every traversal the first node is
\* handle_lesson_confirmation if awaiting_lesson_confirmation is true,
\* otherwise analyze_topic if mode is explanation and topic and lesson_plan
\* are non-empty, otherwise classify_query; no other first node is possible.
C1_EntryRouting ==
    [][ (pc = "idle" /\ pc' # "idle") =>
            pc' = IF state'.awaiting_lesson_confirmation THEN "handle_lesson_confirmation"
                  ELSE IF state'.mode = "explanation" /\ state'.topic # <<>>
                          /\ state'.lesson_plan # <<>>
                  THEN "analyze_topic"
                  ELSE "classify_query" ]_vars

C1_Witness == pc = "analyze_topic" /\ path = <<>> /\ state.lesson_step = 1

\* C2: within one traversal only the transitions of the graph are taken:
\* classify_query -> general_answer | brief_answer_and_offer;
\* handle_lesson_confirmation -> plan_lesson | classify_query | end;
\* plan_lesson -> generate_explanation;
\* analyze_topic -> evaluate_response | classify_query | end (never plan_lesson);
\* evaluate_response -> generate_explanation | complete_lesson;
\* general_answer, brief_answer_and_offer, generate_explanation and
\* complete_lesson end the traversal; and no router returns a key that its
\* edge mapping lacks.
AllowedTransitions ==
    { <<"classify_query", "general_answer">>,
      <<"classify_query", "brief_answer_and_offer">>,
      <<"handle_lesson_confirmation", "plan_lesson">>,
      <<"handle_lesson_confirmation", "classify_query">>,
      <<"handle_lesson_confirmation", END>>,
      <<"plan_lesson", "generate_explanation">>,
      <<"analyze_topic", "evaluate_response">>,
      <<"analyze_topic", "classify_query">>,
      <<"analyze_topic", END>>,
      <<"evaluate_response", "generate_explanation">>,
      <<"evaluate_response", "complete_lesson">>,
      <<"general_answer", END>>,
      <<"brief_answer_and_offer", END>>,
      <<"generate_explanation", END>>,
      <<"complete_lesson", END>> }

C2_OnlyGraphTransitions ==
    /\ pc # ROUTE_ERROR
    /\ \A i \in 1..Len(path) :
          << path[i],
             IF i < Len(path) THEN path[i + 1] ELSE IF pc = "idle" THEN END ELSE pc >>
          \in AllowedTransitions

C2_Witness ==
    pc = END /\ path = <<"analyze_topic", "classify_query", "brief_answer_and_offer">>

\* C3: in every reachable state, at turn boundaries and between the nodes of
\* a traversal, 0 <= lesson_step <= len(lesson_plan) + 1, and while a lesson
\* is active lesson_step >= 1.
C3_LessonStepInRange ==
    /\ 0 <= state.lesson_step
    /\ state.lesson_step <= Len(state.lesson_plan) + 1
    /\ ActiveLesson(state) => state.lesson_step >= 1

C3_Witness ==
    /\ pc = "complete_lesson"
    /\ ActiveLesson(state)
    /\ state.lesson_step = Len(state.lesson_plan) + 1

\* C4: whenever evaluate_response raises lesson_step above len(lesson_plan),
\* complete_lesson is the next node of the same traversal; at the turn
\* boundary after complete_lesson topic, lesson_plan and lesson_step are
\* reset and mode is general; and no turn boundary has an active lesson with
\* lesson_step > len(lesson_plan).
C4_CompletionInSameTraversal ==
    /\ (LastNode = "evaluate_response" /\ state.lesson_step > Len(state.lesson_plan))
          => pc = "complete_lesson"
    /\ (pc \in {END, "idle"} /\ Ran("complete_lesson"))
          => /\ state.topic = <<>>
             /\ state.lesson_plan = <<>>
             /\ state.lesson_step = 0
             /\ state.mode = "general"
    /\ (pc = "idle" /\ ActiveLesson(state))
          => state.lesson_step <= Len(state.lesson_plan)

C4_Witness ==
    /\ pc = "idle"
    /\ path = <<"analyze_topic", "evaluate_response", "complete_lesson">>
    /\ state.mode = "general"
    /\ state.lesson_step = 0

\* C5: every execution of evaluate_response increases lesson_step by exactly
\* 1 and sets last_action to proceed, whether the structured result is
\* present, absent, or the call raised.
C5_EvaluateAlwaysAdvances ==
    [][ pc = "evaluate_response" =>
            /\ state'.lesson_step = state.lesson_step + 1
            /\ state'.last_action = "proceed" ]_vars

C5_Witness ==
    /\ LastNode = "evaluate_response"
    /\ state.last_action = "proceed"
    /\ state.feedback = LLM_FEEDBACK
    /\ state.lesson_step = 2

\* C6: within one lesson no sub-topic is explained twice: the lesson_step
\* values at which generate_explanation ran since plan_lesson are strictly
\* increasing.
C6_NoSubTopicExplainedTwice ==
    \A i, j \in 1..Len(explained) : i < j => explained[i] < explained[j]

C6_Witness == Len(explained) >= 2 /\ pc = "idle"

\* C7: at every turn boundary, mode = explanation implies that topic and
\* lesson_plan are both non-empty.
C7_ExplanationModeHasTopicAndPlan ==
    (pc = "idle" /\ state.mode = "explanation")
        => (state.topic # <<>> /\ state.lesson_plan # <<>>)

\* C8: at every turn boundary awaiting_lesson_confirmation is true exactly
\* when the traversal that just ended finished in brief_answer_and_offer,
\* which is exactly when last_action is offered_lesson; and every execution
\* of handle_lesson_confirmation leaves it false.
C8_AwaitingIffOffered ==
    /\ pc = "idle" =>
          /\ state.awaiting_lesson_confirmation <=> (LastNode = "brief_answer_and_offer")
          /\ state.awaiting_lesson_confirmation <=> (state.last_action = "offered_lesson")
    /\ LastNode = "handle_lesson_confirmation" => ~state.awaiting_lesson_confirmation

C8_Witness ==
    /\ pc = "idle"
    /\ state.awaiting_lesson_confirmation
    /\ path = <<"handle_lesson_confirmation", "classify_query", "brief_answer_and_offer">>

\* C9: at no turn boundary are a pending confirmation and an active lesson
\* (mode = explanation with a non-empty topic) both present, so exactly one
\* of pending confirmation, active lesson and general mode holds.
C9_OfferAndLessonExclusive ==
    pc = "idle" =>
        LET pending == state.awaiting_lesson_confirmation
            lesson == state.mode = "explanation" /\ state.topic # <<>>
            general == ~pending /\ ~lesson
        IN  /\ ~(pending /\ lesson)
            /\ Cardinality({c \in {"pending", "lesson", "general"} :
                    \/ c = "pending" /\ pending
                    \/ c = "lesson" /\ lesson
                    \/ c = "general" /\ general}) = 1

C9_Witness ==
    /\ pc = "idle"
    /\ state.awaiting_lesson_confirmation
    /\ Ran("analyze_topic")
    /\ state.topic = <<>>

\* C10: a turn that starts with a pending offer and an affirmative utterance
\* runs handle_lesson_confirmation, plan_lesson, generate_explanation and
\* nothing else; it ends with lesson_step = 1 and mode = explanation, and the
\* text returned is the message generate_explanation appended for the first
\* sub-topic, not the planner's intro message.
ConfirmedTraversal ==
    <<"handle_lesson_confirmation", "plan_lesson", "generate_explanation">>

C10_YesStartsLesson ==
    (path # <<>> /\ path[1] = "handle_lesson_confirmation" /\ is_yes(state.query)) =>
        /\ \E k \in 1..3 :
              /\ path = SubSeq(ConfirmedTraversal, 1, k)
              /\ pc = IF k < 3 THEN ConfirmedTraversal[k + 1]
                      ELSE IF pc = "idle" THEN "idle" ELSE END
        /\ pc = "idle" =>
              /\ state.lesson_step = 1
              /\ state.mode = "explanation"
              /\ response = Last(state.messages).content
              /\ response \in { LLM_EXPLAIN(state.lesson_plan[1]),
                                EXPLANATION_FALLBACK(state.topic) }
              /\ response # state.messages[Len(state.messages) - 1].content

C10_Witness ==
    /\ pc = "idle"
    /\ path = ConfirmedTraversal
    /\ response = LLM_EXPLAIN(state.lesson_plan[1])
    /\ state.lesson_plan[1] = <<"step", "1">>

(***************************************************************************)
(* Fallback branches.                                                      *)
(***************************************************************************)
\* the nodes that call the model
LLMNodes ==
    { "classify_query", "general_answer", "brief_answer_and_offer", "plan_lesson",
      "generate_explanation", "evaluate_response", "complete_lesson" }

\* the keys of AgentState other than the message list
StateFields ==
    { "query", "mode", "topic", "lesson_plan", "lesson_step", "last_action",
      "awaiting_lesson_confirmation", "pending_topic", "feedback", "last_explanation" }

NodeResult(n, s, out) ==
    CASE n = "classify_query" -> classify_query(s, out)
      [] n = "general_answer" -> general_answer(s, out)
      [] n = "brief_answer_and_offer" -> brief_answer_and_offer(s, out)
      [] n = "plan_lesson" -> plan_lesson(s, out)
      [] n = "generate_explanation" -> generate_explanation(s, out)
      [] n = "evaluate_response" -> evaluate_response(s, out)
      [] n = "complete_lesson" -> complete_lesson(s, out)

\* the outcomes of node n's model call on which its success branch runs
SuccessOutcomes(n) ==
    CASE n = "classify_query" -> { o \in ClassifierOutcomes : o.kind = "tool" }
      [] n = "plan_lesson" -> { o \in PlannerOutcomes : o.kind = "tool" }
      [] n = "evaluate_response" -> { o \in EvaluatorOutcomes : o.kind = "tool" }
      [] OTHER -> { "ok" }

\* a raised error, and for a structured call an empty structured result
FailureOutcomes(n) ==
    CASE n = "classify_query" -> { o \in ClassifierOutcomes : o.kind # "tool" }
      [] n = "plan_lesson" -> { o \in PlannerOutcomes : o.kind # "tool" }
      [] n = "evaluate_response" -> { o \in EvaluatorOutcomes : o.kind # "tool" }
      [] OTHER -> { "raise" }

\* two distinct values of field k, neither written by any node
Probe(k, i) ==
    CASE k \in {"query", "topic", "pending_topic", "feedback", "last_explanation"} ->
            << "<probe>", ToString(i) >>
      [] k = "lesson_plan" -> << << "<probe>", ToString(i) >> >>
      [] k = "lesson_step" -> i
      [] k = "mode" -> IF i = 1 THEN "general" ELSE "explanation"
      [] k = "last_action" -> IF i = 1 THEN "<probe 1>" ELSE "<probe 2>"
      [] k = "awaiting_lesson_confirmation" -> (i = 1)

\* node n's update assigns field k on outcome out: the value of k after the
\* node does not depend on the value of k before it
Assigns(n, s, out, k) ==
    NodeResult(n, [s EXCEPT ![k] = Probe(k, 1)], out)[k]
        = NodeResult(n, [s EXCEPT ![k] = Probe(k, 2)], out)[k]

AssignedFields(n, s, out) == { k \in StateFields : Assigns(n, s, out, k) }

\* the number of messages node n's update appends
Appended(n, s, out) == Len(NodeResult(n, s, out).messages) - Len(s.messages)

\* C11: for each node that calls the model, the raised-error branch and the
\* empty-structured-result branch write a last_action the success branch
\* writes, assign the same set of state fields as the success branch and
\* append as many messages, so the state after the node has the same shape
\* whether or not the call failed.
C11_FailureKeepsStateShape ==
    pc \in LLMNodes =>
        \A failed \in FailureOutcomes(pc) :
            /\ \E ok \in SuccessOutcomes(pc) :
                  NodeResult(pc, state, failed).last_action
                      = NodeResult(pc, state, ok).last_action
            /\ \A ok \in SuccessOutcomes(pc) :
                  /\ AssignedFields(pc, state, failed) = AssignedFields(pc, state, ok)
                  /\ Appended(pc, state, failed) = Appended(pc, state, ok)

\* C12: no failure of a model call made during a turn reaches the caller of
\* run_agent: on every path through run_agent, the graph nodes and the
\* small-talk fast path alike, the turn that has ended returned a response
\* text.
C12_NoLLMFailurePropagates ==
    (pc = "idle" /\ turns > 0) => (response # RAISED /\ response # NO_RESPONSE)

\* plan_lesson has just run on one of its fallback branches: the intro message
\* it appended is the one written when the model returned no tool call, or the
\* one written when the call raised
PlannedByFallback ==
    /\ LastNode = "plan_lesson"
    /\ \/ StartsWith(Last(state.messages).content, <<"Let us explore">>)
       \/ StartsWith(Last(state.messages).content, <<"Let us learn about">>)

\* C13: if the model call in plan_lesson raises or returns no tool call, the
\* state after plan_lesson still has a non-empty lesson_plan, lesson_step = 1,
\* mode = explanation and last_action = planned, and the traversal continues
\* to generate_explanation.
C13_PlanFallbackStartsLesson ==
    PlannedByFallback =>
        /\ state.lesson_plan # <<>>
        /\ state.lesson_step = 1
        /\ state.mode = "explanation"
        /\ state.last_action = "planned"
        /\ pc = "generate_explanation"

C13_Witness ==
    /\ PlannedByFallback
    /\ pc = "generate_explanation"
    /\ state.lesson_plan = << <<"Understanding", "photosynthesis">> >>
    /\ state.lesson_step = 1

\* C14: whenever lesson_plan is non-empty it has between 3 and 5 entries, for
\* every outcome of plan_lesson: any number of steps returned by the model,
\* no tool call, or a raised error.
C14_PlanHasThreeToFiveEntries ==
    state.lesson_plan # <<>> =>
        (MIN_STEPS <= Len(state.lesson_plan) /\ Len(state.lesson_plan) <= MAX_STEPS)

\* C15: immediately after complete_lesson, in its success branch and in its
\* failure branch alike, mode = general, topic = "", lesson_plan = [],
\* lesson_step = 0, last_explanation = "", feedback = "" and
\* pending_topic = ""; and immediately after analyze_topic_context has exited
\* the lesson (exited_lesson), feedback and last_explanation are empty.
C15_CompletionAndExitReset ==
    /\ LastNode = "complete_lesson" =>
          /\ state.mode = "general"
          /\ state.topic = <<>>
          /\ state.lesson_plan = <<>>
          /\ state.lesson_step = 0
          /\ state.last_explanation = <<>>
          /\ state.feedback = <<>>
          /\ state.pending_topic = <<>>
    /\ (LastNode = "analyze_topic" /\ state.last_action = "exited_lesson") =>
          /\ state.feedback = <<>>
          /\ state.last_explanation = <<>>

\* the analyzer's model call raised
NoAnalysis == [kind |-> "raise", suggested_action |-> NO_LABEL, reply |-> "ok"]

\* C16: during an active lesson, when the utterance matches
\* is_repeat_request, analyze_topic_context makes no model call (its result
\* does not depend on the outcome of one), the turn ends with
\* last_action = repeated, the response is one acknowledgement prefix
\* followed by last_explanation, and lesson_step is unchanged.
C16_RepeatReplaysLastExplanation ==
    [][ (pc = "analyze_topic" /\ is_repeat_request(state.query)) =>
            /\ \A out \in AnalyzerOutcomes, draw \in RandomDraws :
                  analyze_topic_context(state, out, draw)
                      = analyze_topic_context(state, NoAnalysis, draw)
            /\ pc' = END
            /\ state'.last_action = "repeated"
            /\ state'.lesson_step = state.lesson_step
            /\ \E draw \in RandomDraws :
                  ExtractResponse(state')
                      = REPEAT_PREFIXES_FAST[draw] \o state.last_explanation ]_vars

\* C17: when mid-lesson analysis yields context_analyzed, evaluate_response
\* advances lesson_step by exactly 1 and leaves feedback non-empty; the
\* message generate_explanation produces next begins with exactly that
\* feedback, and feedback is empty after generate_explanation has run.
C17_FeedbackStagedThenConsumed ==
    [][ /\ pc = "evaluate_response" =>
              /\ state'.lesson_step = state.lesson_step + 1
              /\ state'.feedback # <<>>
        /\ (pc = "generate_explanation" /\ LastNode = "evaluate_response") =>
              /\ StartsWith(Last(state'.messages).content, state.feedback)
              /\ state'.feedback = <<>> ]_vars

(***************************************************************************)
(* Turns and the message list.                                             *)
(***************************************************************************)
\* a run_agent call that returned from the small-talk fast path
FastPathTurn == pc = "idle" /\ pc' = "idle" /\ turns' = turns + 1

\* a run_agent call that enters the graph
GraphTurnBegins == pc = "idle" /\ pc' # "idle"

\* C18: run_agent takes the small-talk fast path only when the stored state
\* has no active lesson and no pending lesson confirmation and
\* is_small_talk(query) holds; on that path no graph node runs and the
\* persisted session state, every field including the message list, is what
\* it was before the turn.
C18_FastPathLeavesStateAlone ==
    [][ FastPathTurn =>
            /\ ~ActiveLesson(state)
            /\ state.topic = <<>>
            /\ ~state.awaiting_lesson_confirmation
            /\ is_small_talk(last_query')
            /\ path' = <<>>
            /\ state' = state
            /\ has_state' = has_state ]_vars

C18_Witness ==
    /\ pc = "idle"
    /\ path = <<>>
    /\ turns = 2
    /\ last_query = <<"i'm", "good">>
    /\ response = LLM_SMALL_TALK
    /\ state.last_action = "general_answered"
    /\ Len(state.messages) = 2

\* C19: every run_agent call that goes through the graph appends the user's
\* utterance to the message list before any node runs, and the response it
\* returns is the content of an assistant message appended during that same
\* traversal: never a message left from an earlier turn and never the
\* default text.
C19_ResponseIsFromThisTurn ==
    [][ /\ GraphTurnBegins =>
              /\ state'.messages = state.messages \o <<HumanMessage(last_query')>>
              /\ path' = <<>>
        /\ (pc = END /\ pc' = "idle") =>
              /\ Len(state.messages) >= 2
              /\ \E i \in 1..Len(state.messages) :
                    /\ state.messages[i] = HumanMessage(last_query)
                    /\ \A j \in (i + 1)..Len(state.messages) :
                          state.messages[j].role = "ai"
                    /\ i < Len(state.messages)
                    /\ response' = Last(state.messages).content
              /\ response' # DEFAULT_RESPONSE ]_vars

C19_Witness ==
    /\ pc = "idle"
    /\ turns = 2
    /\ path = <<"handle_lesson_confirmation">>
    /\ state.last_action = "declined_lesson"
    /\ response = DECLINE_MESSAGE
    /\ Len(state.messages) = 4

\* C20: the message list of a session only grows: over every step of every
\* turn, the turns in which run_agent re-initialises all other fields
\* included, the list after has the list before as a prefix, in the same
\* order.
C20_MessagesOnlyGrow ==
    [][ /\ StartsWith(state'.messages, state.messages)
        /\ GraphTurnBegins => Len(state'.messages) = Len(state.messages) + 1 ]_vars

C20_Witness ==
    /\ pc = "classify_query"
    /\ path = <<>>
    /\ turns = 2
    /\ state.last_action = "initial"
    /\ Len(state.messages) = 3
    /\ state.messages[2].role = "ai"

(***************************************************************************)
(* Leaving a lesson, staged fields, general answers.                       *)
(***************************************************************************)
\* the message analyze_topic_context appends when the learner leaves a lesson
IsProgressSummary(content) == StartsWith(content, <<"Sure thing! We covered">>)

\* the texts general_answer and brief_answer_and_offer append
AnswerTexts == { LLM_GENERAL, GENERAL_FALLBACK, LLM_BRIEF, OFFER_FALLBACK }

\* C21: when analysis of a mid-lesson utterance selects switch_topic, the
\* same traversal resets mode to general and topic, lesson_plan, lesson_step
\* to empty/0, appends the progress-summary message, then runs classify_query
\* on the same utterance followed by general_answer or
\* brief_answer_and_offer; the response returned for the turn is that answer,
\* not the progress summary.
C21_SwitchTopicReclassifies ==
    /\ (LastNode = "analyze_topic" /\ state.last_action = "exited_lesson") =>
          /\ state.mode = "general"
          /\ state.topic = <<>>
          /\ state.lesson_plan = <<>>
          /\ state.lesson_step = 0
          /\ IsProgressSummary(Last(state.messages).content)
          /\ state.query = last_query
          /\ pc = "classify_query"
    /\ (Len(path) >= 2 /\ path[1] = "analyze_topic" /\ path[2] = "classify_query") =>
          /\ state.query = last_query
          /\ Len(path) <= 3
          /\ Len(path) = 2 => pc \in {"general_answer", "brief_answer_and_offer"}
          /\ Len(path) = 3 =>
                /\ path[3] \in {"general_answer", "brief_answer_and_offer"}
                /\ pc \in {END, "idle"}
                /\ Last(state.messages).content \in AnswerTexts
                /\ IsProgressSummary(state.messages[Len(state.messages) - 1].content)
          /\ pc = "idle" =>
                /\ response = Last(state.messages).content
                /\ ~IsProgressSummary(response)

C21_Witness ==
    /\ pc = "idle"
    /\ path = <<"analyze_topic", "classify_query", "general_answer">>
    /\ response = LLM_GENERAL
    /\ state.mode = "general"
    /\ state.lesson_step = 0
    /\ IsProgressSummary(state.messages[Len(state.messages) - 1].content)

\* C22: pending_topic is empty after plan_lesson has run, in every branch of
\* plan_lesson (structured result, no tool call, raised error).
C22_PlanningClearsPendingTopic ==
    LastNode = "plan_lesson" => state.pending_topic = <<>>

\* C23: whenever a lesson is active at a turn boundary, last_explanation is
\* the text of the most recent message appended by generate_explanation in
\* that lesson.  Stated over steps: generate_explanation leaves
\* last_explanation equal to the message it appends, and while the lesson
\* stays active no other step changes last_explanation.
C23_LastExplanationIsLatest ==
    [][ /\ pc = "generate_explanation" =>
              state'.last_explanation = Last(state'.messages).content
        /\ (pc # "generate_explanation" /\ ActiveLesson(state) /\ ActiveLesson(state')) =>
              state'.last_explanation = state.last_explanation ]_vars

\* C24: for a session with no active lesson and no pending confirmation, a
\* query classified general (the classifier's no-tool-call and raised-error
\* fallbacks and any label other than explanation included) yields the
\* traversal classify_query -> general_answer: exactly one assistant message
\* is appended and returned, mode stays general, topic and lesson_plan stay
\* empty, lesson_step stays 0 and awaiting_lesson_confirmation stays false.
C24_GeneralQueryAnsweredOnce ==
    /\ (pc = "classify_query" /\ path = <<>>) =>
          \A out \in ClassifierOutcomes :
              (out.kind # "tool" \/ out.query_type # "explanation") =>
                  NextNode("classify_query", classify_query(state, out)) = "general_answer"
    /\ (path # <<>> /\ path[1] = "classify_query"
            /\ (Len(path) > 1 => path[2] = "general_answer")
            /\ (Len(path) = 1 => pc = "general_answer")) =>
          /\ Len(path) <= 2
          /\ state.mode = "general"
          /\ state.topic = <<>>
          /\ state.lesson_plan = <<>>
          /\ state.lesson_step = 0
          /\ ~state.awaiting_lesson_confirmation
          /\ Len(path) = 1 => Last(state.messages) = HumanMessage(last_query)
          /\ Len(path) = 2 =>
                /\ pc \in {END, "idle"}
                /\ Last(state.messages).role = "ai"
                /\ Last(state.messages).content \in {LLM_GENERAL, GENERAL_FALLBACK}
                /\ state.messages[Len(state.messages) - 1] = HumanMessage(last_query)
          /\ pc = "idle" => response = Last(state.messages).content

C24_Witness ==
    /\ pc = "idle"
    /\ path = <<"classify_query", "general_answer">>
    /\ state.last_action = "general_answered"
    /\ response = GENERAL_FALLBACK
    /\ Len(state.messages) = 2

(***************************************************************************)
(* Transport: the steps of a request.  A request is served by its handler  *)
(* coroutine; run_agent runs in a worker thread (asyncio.to_thread), and   *)
(* for the voice endpoint the filler synthesis is a task of its own.       *)
(*   pc       where the request's run_agent call stands (before dispatch:  *)
(*            where its handler stands)                                    *)
(*   handler  what the handler coroutine, then the response stream, awaits *)
(*   filler   the filler task                                              *)
(*   stream   the calls whose audio the response stream has yielded        *)
(*   pending  the synthesis calls still to be made for the main response   *)
(***************************************************************************)
FillerAudio == [call |-> "generate_filler_audio", text |-> <<>>]

\* requests are interchangeable: they arrive in the order of their numbers
Arrive(r) ==
    /\ req[r].pc = "new"
    /\ IF r = 1 THEN TRUE ELSE req[r - 1].pc # "new"
    /\ \E u \in Users, e \in Endpoints, l \in Languages :
          /\ e = "query" => l = "en-IN"
          /\ req' = [req EXCEPT ![r] = [@ EXCEPT !.pc = "find_session", !.user = u,
                                                 !.endpoint = e, !.language = l]]
    /\ UNCHANGED <<sessions, checkpoint, cached_agent, builds, agent_vars, text_vars>>

\* get_or_create_device_session_id: sessions.find_one
FindSession(r) ==
    /\ req[r].pc = "find_session"
    /\ LET session_id == SessionId(req[r].user)
           found == \E i \in 1..Len(sessions) : sessions[i] = session_id
       IN  req' = [req EXCEPT ![r] =
                      IF found
                      THEN [@ EXCEPT !.pc = "dispatch", !.session_id = session_id]
                      ELSE [@ EXCEPT !.pc = "insert_session"]]
    /\ UNCHANGED <<sessions, checkpoint, cached_agent, builds, agent_vars, text_vars>>

\* get_or_create_device_session_id: sessions.insert_one
InsertSession(r) ==
    /\ req[r].pc = "insert_session"
    /\ sessions' = Append(sessions, SessionId(req[r].user))
    /\ req' = [req EXCEPT ![r] = [@ EXCEPT !.pc = "dispatch",
                                           !.session_id = SessionId(req[r].user)]]
    /\ UNCHANGED <<checkpoint, cached_agent, builds, agent_vars, text_vars>>

\* the handler hands run_agent to a worker thread; the voice handler first
\* creates the filler task
Dispatch(r) ==
    /\ req[r].pc = "dispatch"
    /\ req' = [req EXCEPT ![r] =
                  IF req[r].endpoint = "voice"
                  THEN [@ EXCEPT !.pc = "get_agent", !.filler = "running",
                                 !.handler = "await_filler"]
                  ELSE [@ EXCEPT !.pc = "get_agent", !.handler = "await_agent"]]
    /\ UNCHANGED <<sessions, checkpoint, cached_agent, builds, agent_vars, text_vars>>

\* get_agent: the test `_cached_agent is None`
GetAgentCheck(r) ==
    /\ req[r].pc = "get_agent"
    /\ req' = [req EXCEPT ![r] =
                  IF cached_agent = 0
                  THEN [@ EXCEPT !.pc = "build_agent"]
                  ELSE [@ EXCEPT !.pc = "get_state", !.agent = cached_agent]]
    /\ UNCHANGED <<sessions, checkpoint, cached_agent, builds, agent_vars, text_vars>>

\* get_agent: _cached_agent = build_agent(); instances are numbered as built
BuildAgent(r) ==
    /\ req[r].pc = "build_agent"
    /\ builds' = builds + 1
    /\ cached_agent' = builds + 1
    /\ req' = [req EXCEPT ![r] = [@ EXCEPT !.pc = "get_state", !.agent = builds + 1]]
    /\ UNCHANGED <<sessions, checkpoint, agent_vars, text_vars>>

\* variant: the exception is swallowed and the default response returned
run_agent_except_default_response(request) ==
    [request EXCEPT !.pc = "returned", !.result = DEFAULT_RESPONSE]

\* run_agent: except Exception: log, then raise
run_agent_except(request) ==
    [request EXCEPT !.pc = "raised", !.result = RAISED]

\* an exception is raised inside the try block of run_agent
Fails(request) == run_agent_except([request EXCEPT !.failed = TRUE])

\* run_agent: agent.get_state(config), then the choice of the fast path
GetState(r) ==
    /\ req[r].pc = "get_state"
    /\ \E ok \in BOOLEAN, fast \in BOOLEAN :
          req' = [req EXCEPT ![r] =
                     IF ok
                     THEN [@ EXCEPT !.pc = IF fast THEN "fast_path" ELSE "invoke"]
                     ELSE Fails(@)]
    /\ UNCHANGED <<sessions, checkpoint, cached_agent, builds, agent_vars, text_vars>>

\* run_agent: return handle_small_talk(query)
FastPath(r) ==
    /\ req[r].pc = "fast_path"
    /\ \/ \E reply \in ServerResponses :
             req' = [req EXCEPT ![r] = [@ EXCEPT !.pc = "returned", !.result = reply]]
       \/ req' = [req EXCEPT ![r] = Fails(@)]
    /\ UNCHANGED <<sessions, checkpoint, cached_agent, builds, agent_vars, text_vars>>

\* run_agent: agent.invoke reads the thread's checkpoint
InvokeLoad(r) ==
    /\ req[r].pc = "invoke"
    /\ \E ok \in BOOLEAN :
          req' = [req EXCEPT ![r] =
                     IF ok
                     THEN [@ EXCEPT !.pc = "save", !.loaded = checkpoint[req[r].session_id]]
                     ELSE Fails(@)]
    /\ UNCHANGED <<sessions, checkpoint, cached_agent, builds, agent_vars, text_vars>>

\* run_agent: the traversal ends, its checkpoint is written and the last
\* assistant message is returned
InvokeSave(r) ==
    /\ req[r].pc = "save"
    /\ \/ /\ \E reply \in ServerResponses :
                req' = [req EXCEPT ![r] = [@ EXCEPT !.pc = "returned", !.result = reply]]
          /\ checkpoint' = [checkpoint EXCEPT ![req[r].session_id] =
                               Append(req[r].loaded, r)]
       \/ /\ req' = [req EXCEPT ![r] = Fails(@)]
          /\ UNCHANGED checkpoint
    /\ UNCHANGED <<sessions, cached_agent, builds, agent_vars, text_vars>>

\* /agent/query: the handler returns {"response": response}, or the error
\* surfaces as a server fault
Respond(r) ==
    /\ req[r].endpoint = "query"
    /\ req[r].handler = "await_agent"
    /\ req[r].pc \in {"returned", "raised"}
    /\ req' = [req EXCEPT ![r] = [@ EXCEPT !.handler =
                  IF req[r].pc = "returned" THEN "responded" ELSE "server_error"]]
    /\ UNCHANGED <<sessions, checkpoint, cached_agent, builds, agent_vars, text_vars>>

\* generate_filler_audio: the bytes received, none when the synthesis failed
FillerDone(r) ==
    /\ req[r].filler = "running"
    /\ \E audio \in {"audio", "empty"} :
          req' = [req EXCEPT ![r] = [@ EXCEPT !.filler = audio]]
    /\ UNCHANGED <<sessions, checkpoint, cached_agent, builds, agent_vars, text_vars>>

\* filler_audio = await filler_task; the StreamingResponse is returned
AwaitFiller(r) ==
    /\ req[r].handler = "await_filler"
    /\ req[r].filler \in {"audio", "empty"}
    /\ req' = [req EXCEPT ![r] = [@ EXCEPT !.handler = "yield_filler"]]
    /\ UNCHANGED <<sessions, checkpoint, cached_agent, builds, agent_vars, text_vars>>

\* combined_audio_stream: if filler_audio: yield filler_audio
YieldFiller(r) ==
    /\ req[r].handler = "yield_filler"
    /\ req' = [req EXCEPT ![r] = [@ EXCEPT
                  !.handler = "await_agent",
                  !.stream = IF req[r].filler = "audio" THEN << FillerAudio >> ELSE <<>>]]
    /\ UNCHANGED <<sessions, checkpoint, cached_agent, builds, agent_vars, text_vars>>

\* combined_audio_stream: response = await agent_task
AwaitAgent(r) ==
    /\ req[r].endpoint = "voice"
    /\ req[r].handler = "await_agent"
    /\ req[r].pc \in {"returned", "raised"}
    /\ req' = [req EXCEPT ![r] =
                  IF req[r].pc = "raised" THEN [@ EXCEPT !.handler = "stream_error"]
                  ELSE IF req[r].language # "en-IN" THEN [@ EXCEPT !.handler = "translate"]
                  ELSE [@ EXCEPT !.handler = "tts",
                                 !.final_response = req[r].result,
                                 !.pending = sentence_pipelined_tts(req[r].result)]]
    /\ UNCHANGED <<sessions, checkpoint, cached_agent, builds, agent_vars, text_vars>>

\* combined_audio_stream: translate_text, for a language other than en-IN
Translate(r) ==
    /\ req[r].handler = "translate"
    /\ \/ \E final_response \in ServerResponses :
             req' = [req EXCEPT ![r] = [@ EXCEPT
                        !.handler = "tts",
                        !.final_response = final_response,
                        !.pending = sentence_pipelined_tts(final_response)]]
       \/ req' = [req EXCEPT ![r] = [@ EXCEPT !.handler = "stream_error"]]
    /\ UNCHANGED <<sessions, checkpoint, cached_agent, builds, agent_vars, text_vars>>

\* sentence_pipelined_tts: the audio of the next synthesis call is yielded
Synthesize(r) ==
    /\ req[r].handler = "tts"
    /\ req[r].pending # <<>>
    /\ \/ req' = [req EXCEPT ![r] = [@ EXCEPT
                     !.stream = Append(@, Head(req[r].pending)),
                     !.pending = Tail(@)]]
       \/ req' = [req EXCEPT ![r] = [@ EXCEPT !.handler = "stream_error"]]
    /\ UNCHANGED <<sessions, checkpoint, cached_agent, builds, agent_vars, text_vars>>

\* the generator is exhausted
CloseStream(r) ==
    /\ req[r].handler = "tts"
    /\ req[r].pending = <<>>
    /\ req' = [req EXCEPT ![r] = [@ EXCEPT !.handler = "closed"]]
    /\ UNCHANGED <<sessions, checkpoint, cached_agent, builds, agent_vars, text_vars>>

\* the requests in flight together; the filler task and the response stream
\* of a voice request share nothing with other requests and are followed in
\* NextVoice
NextServer ==
    \E r \in Requests :
        \/ Arrive(r)
        \/ FindSession(r)
        \/ InsertSession(r)
        \/ Dispatch(r)
        \/ GetAgentCheck(r)
        \/ BuildAgent(r)
        \/ GetState(r)
        \/ FastPath(r)
        \/ InvokeLoad(r)
        \/ InvokeSave(r)
        \/ Respond(r)

SpecServer == Init /\ [][NextServer]_vars

\* no other request has arrived
Alone(r) == \A other \in Requests \ {r} : req[other].pc = "new"

\* one request followed through every task it starts
NextVoice ==
    \E r \in Requests :
        \/ Alone(r) /\ Arrive(r)
        \/ Alone(r) /\ FindSession(r)
        \/ Alone(r) /\ InsertSession(r)
        \/ Alone(r) /\ Dispatch(r)
        \/ Alone(r) /\ GetAgentCheck(r)
        \/ Alone(r) /\ BuildAgent(r)
        \/ Alone(r) /\ GetState(r)
        \/ Alone(r) /\ FastPath(r)
        \/ Alone(r) /\ InvokeLoad(r)
        \/ Alone(r) /\ InvokeSave(r)
        \/ Alone(r) /\ Respond(r)
        \/ Alone(r) /\ FillerDone(r)
        \/ Alone(r) /\ AwaitFiller(r)
        \/ Alone(r) /\ YieldFiller(r)
        \/ Alone(r) /\ AwaitAgent(r)
        \/ Alone(r) /\ Translate(r)
        \/ Alone(r) /\ Synthesize(r)
        \/ Alone(r) /\ CloseStream(r)

SpecVoice == Init /\ [][NextVoice]_vars


(***************************************************************************)
(* Properties of the transport.                                            *)
(***************************************************************************)
\* the request's run_agent call has started and has not finished
InFlight(r) ==
    req[r].pc \in {"get_agent", "build_agent", "get_state", "fast_path", "invoke", "save"}

\* C25: turns that run concurrently are bound to distinct session
\* identifiers: no two requests have their run_agent calls in flight with the
\* same session identifier, so no turn loads a session's checkpoint between
\* another turn's load and save of it.
C25_ConcurrentTurnsDistinctSessions ==
    \A r1 \in Requests : \A r2 \in Requests \ {r1} :
        (InFlight(r1) /\ InFlight(r2)) => req[r1].session_id # req[r2].session_id

\* C26: when loading the stored state, invoking the graph or persisting the
\* state fails inside run_agent, run_agent raises to its caller: the call
\* never returns a response string, blank or default, and the query handler
\* never answers with one.
C26_RunAgentFailureRaises ==
    \A r \in Requests :
        req[r].failed =>
            /\ req[r].pc = "raised"
            /\ req[r].result = RAISED
            /\ req[r].handler # "responded"

C26_Witness ==
    \E r \in Requests :
        /\ req[r].failed
        /\ req[r].loaded # <<>>
        /\ req[r].handler = "server_error"

\* the main-response audio the stream has yielded
MainAudio(r) == SelectSeq(req[r].stream, LAMBDA c : c # FillerAudio)

\* the filler task and the agent turn are created in one step of the handler
StartedTogether ==
    [][\A r \in Requests :
          (req[r].filler = "none" /\ req'[r].filler # "none") =>
              /\ req[r].pc = "dispatch"
              /\ req'[r].pc = "get_agent"
              /\ req'[r].filler = "running"
              /\ req'[r].handler = "await_filler"]_vars

\* the stream of a voice request, as it stands
StreamInOrder(r) ==
    LET stream == req[r].stream
        sentences == split_into_sentences(req[r].final_response)
    IN  \* the filler is awaited before the stream is opened
        /\ req[r].handler \notin {"none", "await_filler"} =>
              req[r].filler \in {"audio", "empty"}
        \* the filler audio, when there is any, comes first and once
        /\ \A i \in 1..Len(stream) : stream[i] = FillerAudio => i = 1
        /\ MainAudio(r) # <<>> => (req[r].filler = "audio" => stream[1] = FillerAudio)
        /\ req[r].filler = "empty" => stream = MainAudio(r)
        \* main-response audio only once the agent turn has returned
        /\ (MainAudio(r) # <<>> \/ req[r].pending # <<>>) => req[r].pc = "returned"
        \* one call for the whole text, or a call per sentence in sentence order
        /\ IF req[r].final_response = <<>>
           THEN MainAudio(r) = <<>> /\ req[r].pending = <<>>
           ELSE MainAudio(r) \o req[r].pending =
                   IF Len(sentences) <= 1
                   THEN << [call |-> "streaming_audio_response",
                            text |-> req[r].final_response] >>
                   ELSE [i \in 1..Len(sentences) |->
                            [call |-> "tts_sentence", text |-> sentences[i]]]

\* C27: in the voice endpoint the filler synthesis and the agent turn are
\* started together and the filler is awaited first; the stream yields the
\* filler audio, when non-empty, before any main-response audio; main-response
\* audio is produced only after the agent turn has completed; and the
\* sentences' audio is emitted in sentence order.
C27_FillerFirstThenSentencesInOrder ==
    /\ StartedTogether
    /\ [](\A r \in Requests : req[r].endpoint = "voice" => StreamInOrder(r))

C27_Witness ==
    \E r \in Requests :
        /\ req[r].endpoint = "voice"
        /\ req[r].handler = "closed"
        /\ req[r].filler = "audio"
        /\ Len(req[r].stream) = 3
        /\ req[r].stream[1] = FillerAudio
        /\ req[r].stream[3].text = << "w", "?" >>

\* C28: the compiled graph is built once per process: build_agent is executed
\* at most once and every call of get_agent, concurrent first calls from
\* different worker threads included, returns the same instance.
C28_GraphBuiltOnce ==
    /\ builds <= 1
    /\ \A r1 \in Requests : \A r2 \in Requests :
          (req[r1].agent # 0 /\ req[r2].agent # 0) => req[r1].agent = req[r2].agent

(***************************************************************************)
(* The text functions applied to drawn inputs.                             *)
(*   kind       "reply": a reply to the lesson offer, given to is_yes and  *)
(*              is_no; "speech": a text given to sentence_pipelined_tts    *)
(*   done       the functions have been applied                            *)
(*   yes, no    what is_yes and is_no returned                             *)
(*   sentences  what split_into_sentences returned                         *)
(*   calls      the synthesis calls sentence_pipelined_tts made            *)
(***************************************************************************)
\* replies, as raw token sequences
Replies ==
    { <<"yes">>, <<"Yes", "!">>, <<" ", "yes", " ">>, <<"sure">>,
      <<"sure", ",", "let's", "do", "it">>, <<"let's", "do", "it">>,
      <<"no">>, <<"no", "thanks">>, <<"no", "thanks", ".">>, <<"not", "now">>,
      <<"teach", "me", "photosynthesis">>, <<"what", "is", "gravity">>, <<>> }

\* speech texts: every text of at most MaxTextLen characters, a character
\* being a letter ("w"), a sentence end or whitespace
SpeechChars == { "w", ".", "?", " " }
SpeechTexts == UNION { [1..n -> SpeechChars] : n \in 0..MaxTextLen }

DrawnTexts ==
    { [NoText EXCEPT !.kind = "reply", !.input = q] : q \in Replies }
    \cup
    { [NoText EXCEPT !.kind = "speech", !.input = t] : t \in SpeechTexts }

InitText == AgentInit /\ ServerInit /\ text \in DrawnTexts

\* is_yes(query) and is_no(query)
Confirm ==
    /\ text.kind = "reply"
    /\ ~text.done
    /\ text' = [text EXCEPT !.done = TRUE,
                            !.yes = is_yes(text.input),
                            !.no = is_no(text.input)]
    /\ UNCHANGED <<agent_vars, server_vars>>

\* sentence_pipelined_tts(text), run to the end of its stream
Speak ==
    /\ text.kind = "speech"
    /\ ~text.done
    /\ text' = [text EXCEPT !.done = TRUE,
                            !.sentences = split_into_sentences(text.input),
                            !.calls = sentence_pipelined_tts(text.input)]
    /\ UNCHANGED <<agent_vars, server_vars>>

NextText == Confirm \/ Speak

SpecText == InitText /\ [][NextText]_vars

\* C29: is_yes returns true for "yes" and for "sure, let's do it" and false
\* for "no thanks"; is_no returns true for "no thanks" and false for "yes"
\* and for "sure, let's do it".
C29_YesNoExamples ==
    (text.kind = "reply" /\ text.done) =>
        /\ text.input = <<"yes">> => (text.yes /\ ~text.no)
        /\ text.input = <<"sure", ",", "let's", "do", "it">> => (text.yes /\ ~text.no)
        /\ text.input = <<"no", "thanks">> => (~text.yes /\ text.no)

\* C30: for every input text, every element split_into_sentences returns is
\* non-empty and has no leading or trailing whitespace; and
\* sentence_pipelined_tts synthesises the whole text in one call exactly when
\* split_into_sentences returns at most one sentence.
C30_SentencesStrippedNonEmpty ==
    (text.kind = "speech" /\ text.done) =>
        /\ \A i \in 1..Len(text.sentences) :
              /\ text.sentences[i] # <<>>
              /\ Head(text.sentences[i]) # " "
              /\ Last(text.sentences[i]) # " "
        /\ (text.calls = << WholeText(text.input) >>) <=> (Len(text.sentences) <= 1)

(***************************************************************************)
(* Mid-lesson turns.                                                       *)
(***************************************************************************)
\* the structured analysis selected an action whose reply is written by a
\* follow-up free-form call
RepliesByModel == { "answer_and_continue", "handle_small_talk" }

\* C31: in analyze_topic_context, once the structured analysis has selected
\* answer_and_continue or handle_small_talk, the turn ends at that node with
\* lesson_step unchanged and last_action answered_question or
\* small_talk_responded respectively, whether the follow-up free-form call
\* that writes the reply succeeds or raises.
C31_ReplyFailureEndsTurnAlike ==
    (pc = "analyze_topic" /\ ~is_repeat_request(state.query)) =>
        \A out \in AnalyzerOutcomes, draw \in RandomDraws :
            (out.kind = "tool" /\ out.suggested_action \in RepliesByModel) =>
                LET new == analyze_topic_context(state, out, draw) IN
                /\ new.last_action =
                      IF out.suggested_action = "answer_and_continue"
                      THEN "answered_question" ELSE "small_talk_responded"
                /\ new.lesson_step = state.lesson_step
                /\ NextNode("analyze_topic", new) = END

\* C32: handle_lesson_confirmation makes no model call and yields exactly one
\* of three outcomes, testing is_yes before is_no: affirmative -> last_action
\* confirmed_lesson, mode explanation, pending_topic retained, no message
\* appended; negative -> one decline message, last_action declined_lesson,
\* mode general, pending_topic empty; anything else -> last_action
\* ambiguous_confirmation, mode general, no message appended and the
\* utterance re-routed to classify_query.
C32_ConfirmationHasThreeOutcomes ==
    [][ pc = "handle_lesson_confirmation" =>
          IF is_yes(state.query)
          THEN /\ state'.last_action = "confirmed_lesson"
               /\ state'.mode = "explanation"
               /\ state'.pending_topic = state.pending_topic
               /\ state'.messages = state.messages
               /\ pc' = "plan_lesson"
          ELSE IF is_no(state.query)
          THEN /\ state'.messages = state.messages \o << AIMessage(DECLINE_MESSAGE) >>
               /\ state'.last_action = "declined_lesson"
               /\ state'.mode = "general"
               /\ state'.pending_topic = <<>>
               /\ pc' = END
          ELSE /\ state'.last_action = "ambiguous_confirmation"
               /\ state'.mode = "general"
               /\ state'.messages = state.messages
               /\ pc' = "classify_query" ]_vars

C32_Witness ==
    /\ pc = "classify_query"
    /\ path = << "handle_lesson_confirmation" >>
    /\ state.last_action = "ambiguous_confirmation"
    /\ state.query = << "can", "you", "repeat", "that" >>
    /\ ~state.awaiting_lesson_confirmation

\* the mid-lesson outcomes on which the lesson stays where it is
StayingOutcomes == { "repeated", "redirected", "small_talk_responded", "answered_question" }

\* C33: for each mid-lesson outcome repeated, redirected,
\* small_talk_responded and answered_question, the traversal ends right
\* after analyze_topic_context, exactly one assistant message is appended,
\* and mode, topic, lesson_plan, lesson_step, feedback, last_explanation and
\* awaiting_lesson_confirmation are left unchanged.
C33_StayingOutcomesLeaveLessonAlone ==
    [][ (pc = "analyze_topic" /\ state'.last_action \in StayingOutcomes) =>
          /\ pc' = END
          /\ Len(state'.messages) = Len(state.messages) + 1
          /\ SubSeq(state'.messages, 1, Len(state.messages)) = state.messages
          /\ Last(state'.messages).role = "ai"
          /\ \A k \in { "mode", "topic", "lesson_plan", "lesson_step", "feedback",
                        "last_explanation", "awaiting_lesson_confirmation" } :
                state'[k] = state[k] ]_vars

C33_Witness ==
    /\ pc = "idle"
    /\ path = << "analyze_topic" >>
    /\ state.last_action = "small_talk_responded"
    /\ state.mode = "explanation"
    /\ state.lesson_step = 1
    /\ Last(state.messages).content = response

(***************************************************************************)
(* The node graph.                                                         *)
(***************************************************************************)
Range(f) == { f[k] : k \in DOMAIN f }

\* the targets of the edges declared out of node n
Targets(n) ==
    CASE n = "classify_query" -> Range(CLASSIFY_EDGES)
      [] n = "handle_lesson_confirmation" -> Range(CONFIRMATION_EDGES)
      [] n = "analyze_topic" -> Range(ANALYSIS_EDGES)
      [] n = "evaluate_response" -> Range(EVALUATION_EDGES)
      [] OTHER -> { NextNode(n, InitialFields) }

\* the nodes reached from the nodes of set S over exactly k declared edges
RECURSIVE ReachedIn(_, _)
ReachedIn(S, k) ==
    IF k = 0 THEN S
    ELSE ReachedIn(UNION { Targets(n) \cap NodeNames : n \in S }, k - 1)

\* C34: every traversal terminates: from any stored state and any utterance
\* the graph executes at most 3 nodes and no node more than once before
\* reaching END; the node graph reachable from START contains no cycle (no
\* node is reached over more than 2 declared edges from an entry node).
C34_TraversalAtMostThreeNodes ==
    /\ Len(path) <= 3
    /\ \A i \in 1..Len(path) : \A j \in 1..Len(path) : path[i] = path[j] => i = j
    /\ pc \in NodeNames => ~Ran(pc)
    /\ Len(path) = 3 => pc \in {END, "idle"}
    /\ pc # ROUTE_ERROR
    /\ ReachedIn(Range(START_EDGES), 3) = {}

C34_Witness ==
    /\ pc = END
    /\ path = << "analyze_topic", "classify_query", "brief_answer_and_offer" >>

(***************************************************************************)
(* Turn boundaries.                                                        *)
(***************************************************************************)
\* C35: at every turn boundary, topic is non-empty only if mode is
\* explanation, lesson_plan is non-empty and awaiting_lesson_confirmation is
\* false; hence run_agent's test for an active lesson (stored topic
\* non-empty), which decides between resuming and re-initialising the state,
\* agrees with route_start's test (mode, topic and lesson_plan): the turn
\* enters at analyze_topic exactly when run_agent saw an active lesson.
C35_ActiveLessonTestsAgree ==
    /\ [](AtTurnBoundary =>
            /\ state.topic # <<>> =>
                  /\ state.mode = "explanation"
                  /\ state.lesson_plan # <<>>
                  /\ ~state.awaiting_lesson_confirmation
            /\ has_active_lesson <=> ActiveLesson(state))
    /\ [][ (pc = "idle" /\ pc' # "idle") =>
              (has_active_lesson <=> pc' = "analyze_topic") ]_vars

C35_Witness ==
    /\ pc = "analyze_topic"
    /\ path = <<>>
    /\ turns = 3
    /\ state.topic = << "photosynthesis" >>
    /\ Len(state.lesson_plan) = 3

(***************************************************************************)
(* Lessons followed over many turns.                                       *)
(***************************************************************************)
\* the node about to run prefixes its message with the stored feedback
PrefixesFeedback ==
    /\ pc \in {"generate_explanation", "complete_lesson"}
    /\ state.feedback # <<>>
    /\ StartsWith(Last(state'.messages).content, state.feedback \o << "\n\n" >>)

\* C36: whenever generate_explanation or complete_lesson prefixes its message
\* with feedback, that feedback was staged by evaluate_response earlier in
\* the same traversal, for the learner's latest answer; feedback staged in
\* an earlier turn is never shown later.
C36_ShownFeedbackIsFresh ==
    [][ PrefixesFeedback => (Ran("evaluate_response") /\ staged) ]_vars

\* C37: whenever plan_lesson runs, feedback and last_explanation are empty,
\* so the first explanation of a lesson is never prefixed with feedback left
\* over from an earlier lesson, whichever branch (success or failure) ended
\* that earlier lesson.
C37_PlanningStartsClean ==
    /\ [](pc = "plan_lesson" => (state.feedback = <<>> /\ state.last_explanation = <<>>))
    /\ [][ (pc = "generate_explanation" /\ LastNode = "plan_lesson") =>
              ~PrefixesFeedback ]_vars

\* a second lesson is about to be planned after the first one was completed
\* on complete_lesson's failure branch
C37_Witness ==
    /\ pc = "plan_lesson"
    /\ turns >= 3
    /\ \E i \in 1..Len(state.messages) :
          /\ state.messages[i].role = "ai"
          /\ StartsWith(state.messages[i].content, << "Great work completing the lesson on" >>)

C39_PendingTopicIsLatestOffer ==
    /\ []((AtTurnBoundary /\ state.awaiting_lesson_confirmation) =>
             /\ Len(path) >= 2
             /\ path[Len(path) - 1] = "classify_query"
             /\ Last(path) = "brief_answer_and_offer")
    /\ [][ /\ pc = "classify_query" =>
                /\ \A out \in ClassifierOutcomes :
                      Assigns("classify_query", state, out, "pending_topic")
                /\ state'.pending_topic \in
                      {state.query} \cup (ClassifierTopics \ {ABSENT})
           /\ pc = "brief_answer_and_offer" =>
                state'.pending_topic = state.pending_topic
           /\ (pc = "handle_lesson_confirmation" /\ pc' = "plan_lesson") =>
                state'.pending_topic = state.pending_topic
           /\ pc = "plan_lesson" =>
                state'.topic \in {state.pending_topic} \cup (PlannerTopics \ {ABSENT}) ]_vars

\* an offer was abandoned with an ambiguous reply, a second offer was made
\* and is now confirmed
C39_Witness ==
    /\ pc = "plan_lesson"
    /\ turns = 3
    /\ last_query = << "Yes" >>
    /\ state.pending_topic = << "photosynthesis" >>
    /\ Len(state.messages) = 5
    /\ state.messages[2].content \in {LLM_BRIEF, OFFER_FALLBACK}
    /\ state.messages[3].content = << "can", "you", "repeat", "that" >>
    /\ state.messages[4].content \in {LLM_BRIEF, OFFER_FALLBACK}


(***************************************************************************)
(* Device sessions.                                                        *)
(***************************************************************************)
\* the documents of the sessions collection that carry a session id
DocumentsWith(session_id) ==
    { i \in 1..Len(sessions) : sessions[i] = session_id }

\* C40: for each user, get_or_create_device_session_id returns the same
\* identifier on every call, and the sessions collection holds at most one
\* document with that session_id, however concurrent calls for the same user
\* interleave.
C40_OneSessionDocumentPerUser ==
    /\ \A r \in Requests :
          req[r].session_id # <<>> => req[r].session_id = SessionId(req[r].user)
    /\ \A u \in Users : Cardinality(DocumentsWith(SessionId(u))) <= 1

====
